---- MODULE Spec2Model ----
(***************************************************************************)
(* Model of the query path of the research-paper RAG service:              *)
(*   - QueryCache            (src/src/services/cache_service.py)           *)
(*   - RAGPipeline           (src/src/services/rag_pipeline.py)            *)
(*   - the HTTP handlers     (src/src/api/routes.py)                       *)
(*   - the response schemas  (src/src/models/schemas.py)                   *)
(*                                                                         *)
(* Every handler of routes.py is an `async def` without an await in its    *)
(* body, so one handler runs to completion on the event loop before the    *)
(* next one starts: each handler is one atomic action.                     *)
(*                                                                         *)
(* Conventions                                                             *)
(*   - a Python str is a sequence of one-character strings;                *)
(*   - Optional[x] is a record [some |-> BOOLEAN, v |-> x];                *)
(*   - a Python dict is a sequence of entries in insertion order;          *)
(*   - scores are integers in thousandths (0.95 is 950), boosted scores    *)
(*     in 1/100000 (score * (100 + boost percent));                        *)
(*   - time.time() and datetime.now() read one clock, `now`, in seconds;   *)
(*   - the SHA-256 digest of the canonical JSON is taken to be injective,  *)
(*     so a cache key is the canonical structure itself.                   *)
(***************************************************************************)
EXTENDS Integers, Sequences, FiniteSets, TLC

VARIABLES
    CACHE_ENABLED,  \* config.CACHE_ENABLED (query_cache is None when FALSE)
    max_size,       \* QueryCache.max_size
    ttl_seconds,    \* QueryCache.ttl_seconds
    cache,          \* QueryCache.cache, a dict in insertion order
    hits,           \* QueryCache.hits
    misses,         \* QueryCache.misses
    evictions,      \* QueryCache.evictions
    now,            \* the wall clock
    last,           \* what the handler that ran last did and answered
    loop,           \* the event loop: the handlers in flight and the one running
    gets            \* history: the calls of get since construction or the last clear

vars == <<CACHE_ENABLED, max_size, ttl_seconds, cache, hits, misses, evictions, now, last, loop, gets>>

\* The event loop with no request in flight
LoopIdle == [tasks |-> << >>, running |-> 0, arrived |-> 0]

(***************************************************************************)
(* Bounds of the model                                                     *)
(***************************************************************************)
MaxCap == 2         \* max_size is configured in 0..MaxCap
TtlSeconds == 2     \* ttl_seconds, scaled down
MaxTime == 2        \* the clock runs from 0 to MaxTime
MaxGets == 3        \* ordinary traffic: at most MaxGets lookups between two clears
MaxFaultyGets == 2  \* failing collaborators: at most MaxFaultyGets lookups between two clears
MaxFound == 5         \* the index returns at most MaxFound candidates
MaxArrivals == 3    \* the event loop: at most MaxArrivals requests arrive
MaxInFlight == 2    \* the event loop: at most MaxInFlight handlers are in flight       \* re-ranking: the index returns at most MaxFound chunks

(***************************************************************************)
(* Program constants                                                       *)
(***************************************************************************)
MIN_LENGTH == 3             \* QueryRequest.question min_length
TOP_K_MIN == 1              \* QueryRequest.top_k ge
TOP_K_MAX == 20             \* QueryRequest.top_k le
FINGERPRINT_LEN == 100      \* text[:100]
SECTION_CAP == 3            \* max 3 chunks of one section
BOOST_UNIT_PCT == 3         \* keyword_matches * 0.03
BOOST_CAP_PCT == 15         \* min(..., 0.15)
SCORE_THRESHOLD == 300      \* score_threshold=0.3
CACHE_HIT_TIME == 1         \* result['response_time'] = 0.001

(***************************************************************************)
(* Python values                                                           *)
(***************************************************************************)
None == [some |-> FALSE, v |-> <<>>]
Some(x) == [some |-> TRUE, v |-> x]

Min2(a, b) == IF a <= b THEN a ELSE b
Max2(a, b) == IF a >= b THEN a ELSE b

(***************************************************************************)
(* str methods                                                             *)
(***************************************************************************)
IsSpace(c) == c \in {" ", "\t"}

\* str.lower(), one character
LowerChar(c) ==
    CASE c = "A" -> "a"
      [] c = "B" -> "b"
      [] c = "C" -> "c"
      [] c = "X" -> "x"
      [] c = "Y" -> "y"
      [] OTHER -> c

\* str.lower()
Lower(s) == [i \in 1..Len(s) |-> LowerChar(s[i])]

\* str.strip()
Strip(s) ==
    LET keep == {i \in 1..Len(s) : ~IsSpace(s[i])}
    IN  IF keep = {} THEN <<>>
        ELSE LET lo == CHOOSE i \in keep : \A j \in keep : i <= j
                 hi == CHOOSE i \in keep : \A j \in keep : i >= j
             IN  SubSeq(s, lo, hi)

\* str.split(): the maximal runs of non-whitespace characters, in order
RECURSIVE SplitFrom(_, _, _)
SplitFrom(s, i, word) ==
    IF i > Len(s) THEN (IF word = <<>> THEN <<>> ELSE <<word>>)
    ELSE IF IsSpace(s[i])
         THEN (IF word = <<>> THEN <<>> ELSE <<word>>) \o SplitFrom(s, i + 1, <<>>)
         ELSE SplitFrom(s, i + 1, Append(word, s[i]))

Split(s) == SplitFrom(s, 1, <<>>)

\* ' '.join(words)
RECURSIVE Join(_)
Join(words) ==
    IF words = <<>> THEN <<>>
    ELSE IF Len(words) = 1 THEN words[1]
    ELSE words[1] \o <<" ">> \o Join(Tail(words))

\* word in text
IsSubstring(word, text) ==
    \E i \in 0..(Len(text) - Len(word)) :
        \A j \in 1..Len(word) : text[i + j] = word[j]

\* sorted(xs), by insertion
RECURSIVE InsertSorted(_, _)
InsertSorted(x, xs) ==
    IF xs = <<>> THEN <<x>>
    ELSE IF x < Head(xs) THEN <<x>> \o xs
    ELSE <<Head(xs)>> \o InsertSorted(x, Tail(xs))

RECURSIVE Sorted(_)
Sorted(xs) == IF xs = <<>> THEN <<>> ELSE InsertSorted(Head(xs), Sorted(Tail(xs)))

\* x in xs
InList(x, xs) == \E i \in 1..Len(xs) : xs[i] = x

(***************************************************************************)
(* QueryCache                                                              *)
(***************************************************************************)
\* Mutant: the question is not lower-cased
NormalizeQuestion_keeps_case(question) == Join(Split(Strip(question)))

\* ' '.join(question.lower().strip().split())
NormalizeQuestion(question) == Join(Split(Strip(Lower(question))))

\* sorted(paper_ids) if paper_ids else None
SortedPaperIds(paper_ids) ==
    IF paper_ids.some /\ paper_ids.v # <<>> THEN Some(Sorted(paper_ids.v)) ELSE None

\* Mutant: top_k is left out of the key
_normalize_query_without_top_k(question, top_k, paper_ids) ==
    [question |-> NormalizeQuestion(question),
     top_k |-> 0,
     paper_ids |-> SortedPaperIds(paper_ids)]

\* QueryCache._normalize_query
_normalize_query(question, top_k, paper_ids) ==
    [question |-> NormalizeQuestion(question),
     top_k |-> top_k,
     paper_ids |-> SortedPaperIds(paper_ids)]

\* The position of cache_key in the dict, 0 when it is not a key
KeyIndex(c, cache_key) ==
    IF \E i \in 1..Len(c) : c[i].key = cache_key
    THEN CHOOSE i \in 1..Len(c) : c[i].key = cache_key
    ELSE 0

\* del self.cache[key], by position
DelAt(c, i) == SubSeq(c, 1, i - 1) \o SubSeq(c, i + 1, Len(c))

\* The cache object: its dict and its three counters
CacheObj(c, h, m, e) == [cache |-> c, hits |-> h, misses |-> m, evictions |-> e]

\* Mutant: the expiry of the entry is not looked at
get_keeps_expired(q, question, top_k, paper_ids, t) ==
    LET cache_key == _normalize_query(question, top_k, paper_ids)
        i == KeyIndex(q.cache, cache_key)
    IN  IF i # 0
        THEN [q |-> [q EXCEPT !.hits = @ + 1,
                              !.cache[i].hit_count = @ + 1,
                              !.cache[i].last_accessed = t],
              ret |-> Some(q.cache[i].response)]
        ELSE [q |-> [q EXCEPT !.misses = @ + 1], ret |-> None]

\* Mutant: the payload returned is the one of the first entry of the dict
get_first_entry(q, question, top_k, paper_ids, t) ==
    LET cache_key == _normalize_query(question, top_k, paper_ids)
        i == KeyIndex(q.cache, cache_key)
    IN  IF i # 0 /\ t < q.cache[i].expires_at
        THEN [q |-> [q EXCEPT !.hits = @ + 1,
                              !.cache[i].hit_count = @ + 1,
                              !.cache[i].last_accessed = t],
              ret |-> Some(q.cache[1].response)]
        ELSE IF i # 0
        THEN [q |-> [q EXCEPT !.cache = DelAt(q.cache, i), !.misses = @ + 1],
              ret |-> None]
        ELSE [q |-> [q EXCEPT !.misses = @ + 1], ret |-> None]

\* Mutant: a hit renews the expiry of the entry
get_sliding_expiry(q, question, top_k, paper_ids, t) ==
    LET cache_key == _normalize_query(question, top_k, paper_ids)
        i == KeyIndex(q.cache, cache_key)
    IN  IF i # 0 /\ t < q.cache[i].expires_at
        THEN [q |-> [q EXCEPT !.hits = @ + 1,
                              !.cache[i].hit_count = @ + 1,
                              !.cache[i].last_accessed = t,
                              !.cache[i].expires_at = t + ttl_seconds],
              ret |-> Some(q.cache[i].response)]
        ELSE IF i # 0
        THEN [q |-> [q EXCEPT !.cache = DelAt(q.cache, i), !.misses = @ + 1],
              ret |-> None]
        ELSE [q |-> [q EXCEPT !.misses = @ + 1], ret |-> None]

\* Mutant: a hit does not update last_accessed
get_hit_untouched(q, question, top_k, paper_ids, t) ==
    LET cache_key == _normalize_query(question, top_k, paper_ids)
        i == KeyIndex(q.cache, cache_key)
    IN  IF i # 0 /\ t < q.cache[i].expires_at
        THEN [q |-> [q EXCEPT !.hits = @ + 1, !.cache[i].hit_count = @ + 1],
              ret |-> Some(q.cache[i].response)]
        ELSE IF i # 0
        THEN [q |-> [q EXCEPT !.cache = DelAt(q.cache, i), !.misses = @ + 1],
              ret |-> None]
        ELSE [q |-> [q EXCEPT !.misses = @ + 1], ret |-> None]

\* Mutant: the lookup of an expired entry is not counted as a miss
get_expired_uncounted(q, question, top_k, paper_ids, t) ==
    LET cache_key == _normalize_query(question, top_k, paper_ids)
        i == KeyIndex(q.cache, cache_key)
    IN  IF i # 0 /\ t < q.cache[i].expires_at
        THEN [q |-> [q EXCEPT !.hits = @ + 1,
                              !.cache[i].hit_count = @ + 1,
                              !.cache[i].last_accessed = t],
              ret |-> Some(q.cache[i].response)]
        ELSE IF i # 0
        THEN [q |-> [q EXCEPT !.cache = DelAt(q.cache, i)], ret |-> None]
        ELSE [q |-> [q EXCEPT !.misses = @ + 1], ret |-> None]

\* QueryCache.get: the cache afterwards and the value returned
get(q, question, top_k, paper_ids, t) ==
    LET cache_key == _normalize_query(question, top_k, paper_ids)
        i == KeyIndex(q.cache, cache_key)
    IN  IF i # 0 /\ t < q.cache[i].expires_at
        THEN [q |-> [q EXCEPT !.hits = @ + 1,
                              !.cache[i].hit_count = @ + 1,
                              !.cache[i].last_accessed = t],
              ret |-> Some(q.cache[i].response)]
        ELSE IF i # 0
        THEN [q |-> [q EXCEPT !.cache = DelAt(q.cache, i), !.misses = @ + 1],
              ret |-> None]
        ELSE [q |-> [q EXCEPT !.misses = @ + 1], ret |-> None]

\* The first key, in dict order, with the least last_accessed: min(keys, key=...)
OldestIndex(c) ==
    CHOOSE i \in 1..Len(c) :
        /\ \A j \in 1..Len(c) : c[i].last_accessed <= c[j].last_accessed
        /\ \A j \in 1..(i - 1) : c[j].last_accessed > c[i].last_accessed

\* QueryCache._evict_oldest
_evict_oldest(q) ==
    IF q.cache = <<>> THEN q
    ELSE [q EXCEPT !.cache = DelAt(q.cache, OldestIndex(q.cache)),
                   !.evictions = @ + 1]

\* self.cache[cache_key] = entry: an existing key keeps its position
DictPut(c, entry) ==
    LET i == KeyIndex(c, entry.key)
    IN  IF i # 0 THEN [c EXCEPT ![i] = entry] ELSE Append(c, entry)

\* QueryCache.set
set(q, question, response, top_k, paper_ids, t) ==
    LET cache_key == _normalize_query(question, top_k, paper_ids)
        q1 == IF Len(q.cache) >= max_size THEN _evict_oldest(q) ELSE q
        entry == [key |-> cache_key,
                  response |-> response,
                  created_at |-> t,
                  last_accessed |-> t,
                  expires_at |-> t + ttl_seconds,
                  hit_count |-> 0,
                  original_question |-> question,
                  top_k |-> top_k,
                  paper_ids |-> paper_ids,
                  stored |-> response]   \* history: the payload as set stored it
    IN  [q1 EXCEPT !.cache = DictPut(q1.cache, entry)]

\* QueryCache.clear
clear(q) == CacheObj(<<>>, 0, 0, 0)

\* The test of invalidate_by_paper: paper_ids is None or paper_id in paper_ids
InvalidatedBy(entry, paper_id) ==
    ~entry.paper_ids.some \/ InList(paper_id, entry.paper_ids.v)

\* QueryCache.invalidate_by_paper
invalidate_by_paper(q, paper_id) ==
    LET Keep(entry) == ~InvalidatedBy(entry, paper_id)
    IN  [q EXCEPT !.cache = SelectSeq(q.cache, Keep)]

\* Mutant: a sweep keeps the entries that expire at this very instant
cleanup_expired_strictly_after(q, t) ==
    LET Keep(entry) == ~(t > entry.expires_at)
        kept == SelectSeq(q.cache, Keep)
    IN  [q |-> [q EXCEPT !.cache = kept], ret |-> Len(q.cache) - Len(kept)]

\* Mutant: a sweep stops after the first expired entry
cleanup_expired_first_only(q, t) ==
    LET expired == {i \in 1..Len(q.cache) : t >= q.cache[i].expires_at}
        first == CHOOSE i \in expired : \A j \in expired : i <= j
    IN  IF expired = {} THEN [q |-> q, ret |-> 0]
        ELSE [q |-> [q EXCEPT !.cache = DelAt(q.cache, first)], ret |-> 1]

\* QueryCache.cleanup_expired: the cache afterwards and the count returned
cleanup_expired(q, t) ==
    LET Keep(entry) == ~(t >= entry.expires_at)
        kept == SelectSeq(q.cache, Keep)
    IN  [q |-> [q EXCEPT !.cache = kept], ret |-> Len(q.cache) - Len(kept)]

(***************************************************************************)
(* RAGPipeline: re-ranking                                                 *)
(***************************************************************************)
CHUNK_PREVIEW_LEN == 300    \* chunk_text[:300]
CONF_TARGET_COUNT == 5      \* len(search_results) / 5
CONF_TOP_N == 3             \* search_results[:3], unique_papers / 3
CONF_SPREAD_CAP == 30000    \* min(score_std, 0.3), in 1/100000

stop_words ==
    {<<"t","h","e">>, <<"a">>, <<"a","n">>, <<"a","n","d">>, <<"o","r">>,
     <<"b","u","t">>, <<"i","n">>, <<"o","n">>, <<"a","t">>, <<"t","o">>,
     <<"f","o","r">>, <<"o","f">>, <<"w","i","t","h">>, <<"i","s">>,
     <<"a","r","e">>, <<"w","a","s">>, <<"w","e","r","e">>, <<"w","h","a","t">>,
     <<"h","o","w">>, <<"w","h","y">>, <<"w","h","e","n">>,
     <<"w","h","e","r","e">>}

\* s[:n]
Prefix(s, n) == SubSeq(s, 1, Min2(n, Len(s)))

\* Mutant: the fingerprint without lower()
Fingerprint_case_sensitive(text) == Strip(Prefix(text, FINGERPRINT_LEN))

\* text[:100].lower().strip()
Fingerprint(text) == Strip(Lower(Prefix(text, FINGERPRINT_LEN)))

\* Step 1: keep the first result of every fingerprint
RECURSIVE Dedup(_, _)
Dedup(results, seen_texts) ==
    IF results = <<>> THEN <<>>
    ELSE LET fingerprint == Fingerprint(Head(results).payload.text)
         IN  IF fingerprint \notin seen_texts
             THEN <<Head(results)>> \o Dedup(Tail(results), seen_texts \cup {fingerprint})
             ELSE Dedup(Tail(results), seen_texts)

\* set(question.lower().split()) - stop_words
QuestionKeywords(question) ==
    LET words == Split(Lower(question))
    IN  {words[i] : i \in 1..Len(words)} \ stop_words

\* sum(1 for word in question_keywords if word in text)
KeywordMatches(question, text) ==
    Cardinality({word \in QuestionKeywords(question) : IsSubstring(word, Lower(text))})

\* Mutant: the boost without its cap
BoostPct_uncapped(keyword_matches) == keyword_matches * BOOST_UNIT_PCT

\* min(keyword_matches * 0.03, 0.15), in percent
BoostPct(keyword_matches) == Min2(keyword_matches * BOOST_UNIT_PCT, BOOST_CAP_PCT)

\* Step 2: result['boosted_score'] = result['score'] * (1 + boost), in 1/100000
Boost(results, question) ==
    [i \in 1..Len(results) |->
        [id |-> results[i].id, score |-> results[i].score, payload |-> results[i].payload,
         boosted_score |->
            results[i].score * (100 + BoostPct(KeywordMatches(question, results[i].payload.text)))]]

\* Mutant: a sort that puts the later of two equal scores first
RECURSIVE InsertByBoost_later_first(_, _)
InsertByBoost_later_first(x, xs) ==
    IF xs = <<>> THEN <<x>>
    ELSE IF x.boosted_score > Head(xs).boosted_score THEN <<x>> \o xs
    ELSE <<Head(xs)>> \o InsertByBoost_later_first(x, Tail(xs))

\* Step 3: list.sort(key=boosted_score, reverse=True); the sort is stable
RECURSIVE InsertByBoost(_, _)
InsertByBoost(x, xs) ==
    IF xs = <<>> THEN <<x>>
    ELSE IF x.boosted_score >= Head(xs).boosted_score THEN <<x>> \o xs
    ELSE <<Head(xs)>> \o InsertByBoost(x, Tail(xs))

RECURSIVE SortByBoost(_)
SortByBoost(xs) ==
    IF xs = <<>> THEN <<>> ELSE InsertByBoost(Head(xs), SortByBoost(Tail(xs)))

\* payload.get('section', 'Other')
RerankSection(payload) == IF payload.section = "<missing>" THEN "Other" ELSE payload.section

\* Step 4: at most SECTION_CAP results of one section, in sorted order
RECURSIVE Diversify(_, _)
Diversify(results, section_counts) ==
    IF results = <<>> THEN <<>>
    ELSE LET section == RerankSection(Head(results).payload)
             section_count == IF section \in DOMAIN section_counts
                              THEN section_counts[section] ELSE 0
         IN  IF section_count < SECTION_CAP
             THEN <<Head(results)>> \o
                  Diversify(Tail(results),
                            [s \in DOMAIN section_counts \cup {section} |->
                                IF s = section THEN section_count + 1 ELSE section_counts[s]])
             ELSE Diversify(Tail(results), section_counts)

\* Mutant: _filter_and_rerank without step 4
_filter_and_rerank_uncapped(search_results, question) ==
    IF search_results = <<>> THEN <<>>
    ELSE SortByBoost(Boost(Dedup(search_results, {}), question))

\* RAGPipeline._filter_and_rerank
_filter_and_rerank(search_results, question) ==
    IF search_results = <<>> THEN <<>>
    ELSE Diversify(SortByBoost(Boost(Dedup(search_results, {}), question)), << >>)

(***************************************************************************)
(* RAGPipeline: citations and confidence                                   *)
(***************************************************************************)
\* round(x, 3) of x given in 1/unit thousandths: to the nearest, halves to even
RoundDiv(x, unit) ==
    LET lo == x \div unit
        r == x % unit
    IN  IF 2 * r < unit THEN lo
        ELSE IF 2 * r > unit THEN lo + 1
        ELSE IF lo % 2 = 0 THEN lo ELSE lo + 1

\* chunk_text[:300] + '...' if len(chunk_text) > 300 else chunk_text
ChunkPreview(chunk_text) ==
    IF Len(chunk_text) > CHUNK_PREVIEW_LEN
    THEN Prefix(chunk_text, CHUNK_PREVIEW_LEN) \o <<".", ".", ".">>
    ELSE chunk_text

\* payload.get('section', 'Unknown')
ContextSection(payload) == IF payload.section = "<missing>" THEN "Unknown" ELSE payload.section

\* RAGPipeline._prepare_context: the citations (the context string only feeds
\* the prompt of the generator, whose answer the model leaves open)
_prepare_context(search_results) ==
    [i \in 1..Len(search_results) |->
        [paper_title |-> search_results[i].payload.title,
         filename |-> search_results[i].payload.filename,
         authors |-> "Unknown",
         section |-> ContextSection(search_results[i].payload),
         page |-> search_results[i].payload.page,
         relevance_score |-> RoundDiv(search_results[i].boosted_score, 100),
         chunk_text |-> ChunkPreview(search_results[i].payload.text),
         reference_number |-> i]]

\* sum(xs)
RECURSIVE SumSeq(_)
SumSeq(xs) == IF xs = <<>> THEN 0 ELSE Head(xs) + SumSeq(Tail(xs))

\* Mutant: _calculate_confidence without min(max(confidence, 0.0), 1.0)
_calculate_confidence_unclipped(search_results) ==
    IF search_results = <<>> THEN 0
    ELSE LET n == Len(search_results)
             top == Prefix(search_results, CONF_TOP_N)
             top_scores == [i \in 1..Len(top) |-> top[i].boosted_score]
             tmax == CHOOSE x \in {top_scores[i] : i \in 1..Len(top)} :
                        \A i \in 1..Len(top) : x >= top_scores[i]
             tmin == CHOOSE x \in {top_scores[i] : i \in 1..Len(top)} :
                        \A i \in 1..Len(top) : x <= top_scores[i]
             score_factor == (SumSeq(top_scores) * 36) \div Len(top)
             consistency_factor ==
                IF n >= CONF_TOP_N
                THEN (CONF_SPREAD_CAP - Min2(tmax - tmin, CONF_SPREAD_CAP))
                        * (1200000 \div CONF_SPREAD_CAP)
                ELSE 600000
             count_factor == (Min2(n, CONF_TARGET_COUNT) * 600000) \div CONF_TARGET_COUNT
             unique_papers ==
                Cardinality({search_results[i].payload.title : i \in 1..n})
             diversity_factor == (Min2(unique_papers, CONF_TOP_N) * 600000) \div CONF_TOP_N
             confidence == score_factor + consistency_factor + count_factor + diversity_factor
         IN  RoundDiv(confidence, 6000)

\* RAGPipeline._calculate_confidence, in thousandths.  The four factors are
\* kept exact in units of 1/6000000 (60 times 1/100000).
_calculate_confidence(search_results) ==
    IF search_results = <<>> THEN 0
    ELSE LET n == Len(search_results)
             top == Prefix(search_results, CONF_TOP_N)
             top_scores == [i \in 1..Len(top) |-> top[i].boosted_score]
             tmax == CHOOSE x \in {top_scores[i] : i \in 1..Len(top)} :
                        \A i \in 1..Len(top) : x >= top_scores[i]
             tmin == CHOOSE x \in {top_scores[i] : i \in 1..Len(top)} :
                        \A i \in 1..Len(top) : x <= top_scores[i]
             score_factor == (SumSeq(top_scores) * 36) \div Len(top)
             consistency_factor ==
                IF n >= CONF_TOP_N
                THEN (CONF_SPREAD_CAP - Min2(tmax - tmin, CONF_SPREAD_CAP))
                        * (1200000 \div CONF_SPREAD_CAP)
                ELSE 600000
             count_factor == (Min2(n, CONF_TARGET_COUNT) * 600000) \div CONF_TARGET_COUNT
             unique_papers ==
                Cardinality({search_results[i].payload.title : i \in 1..n})
             diversity_factor == (Min2(unique_papers, CONF_TOP_N) * 600000) \div CONF_TOP_N
             confidence == score_factor + consistency_factor + count_factor + diversity_factor
             clipped == Min2(Max2(confidence, 0), 6000000)
         IN  RoundDiv(clipped, 6000)

(***************************************************************************)
(* The collaborators: what the embedder, the vector index, the generator   *)
(* and the database may do during one request                              *)
(***************************************************************************)
Payload(text, section, title, paper_id) ==
    [text |-> text, section |-> section, title |-> title,
     filename |-> "paper.pdf", page |-> 1, paper_id |-> paper_id]

Hit(id, score, payload) == [id |-> id, score |-> score, payload |-> payload]

\* The chunks of the index, with the score each has for the question asked
ChunkHigh == Hit("h", 950, Payload(<<"b", " ", "c">>, "Intro", "T1", 1))
ChunkDup == Hit("d", 900, Payload(<<"B", " ", "c", " ">>, "Intro", "T1", 1))
ChunkMid == Hit("m", 600, Payload(<<"c", "c">>, "<missing>", "T2", 2))

\* What the index may answer, best score first
SearchAnswers == {<< >>, <<ChunkMid>>, <<ChunkHigh, ChunkDup, ChunkMid>>}

\* QdrantService.search: at most top_k hits with score >= score_threshold, of
\* the papers of paper_ids when given; any fault of the index is answered by []
search(answer, ok, top_k, paper_ids, score_threshold) ==
    IF ~ok THEN << >>
    ELSE LET Allowed(h) ==
                /\ h.score >= score_threshold
                /\ (paper_ids.some /\ paper_ids.v # << >>) => InList(h.payload.paper_id, paper_ids.v)
         IN  Prefix(SelectSeq(answer, Allowed), top_k)

\* set(titles) iterated: each title once, in the order the hash table yields
UniqueInOrder(order, titles) ==
    LET Present(t) == \E i \in 1..Len(titles) : titles[i] = t
    IN  SelectSeq(order, Present)

TitleOrders == {<<"T1", "T2">>, <<"T2", "T1">>}

\* The places of query() where a malformed payload raises
PipelineFaults == {"none", "rerank", "confidence"}

\* time.time() - start_time of a pipeline run, in 1/1000 s
ElapsedTime == 2 * 1000

(***************************************************************************)
(* RAGPipeline.query                                                       *)
(***************************************************************************)
FALLBACK_ANSWER == "I couldn't find any relevant information in the papers to answer this question."
ERROR_ANSWER == "An error occurred while processing your query: "
GENERATED_ANSWER == "generated text"
GENERATOR_ERROR_ANSWER == "Error generating answer: "

Result(answer, citations, sources_used, confidence, response_time) ==
    [answer |-> answer, citations |-> citations, sources_used |-> sources_used,
     confidence |-> confidence, response_time |-> response_time]

Call(op, arg) == [op |-> op, arg |-> arg]

\* the except branch of query()
ErrorResult == Result(ERROR_ANSWER, << >>, << >>, 0, ElapsedTime)

\* EmbeddingService.embed_text: a fault is answered by the zero vector
embed_text(ok) == IF ok THEN "embedding" ELSE "zero vector"

\* RAGPipeline._generate_answer: a fault of the generator becomes the answer
_generate_answer(ok) == IF ok THEN GENERATED_ANSWER ELSE GENERATOR_ERROR_ANSWER

\* Mutant: query() without its try/except
query_uncaught(question, top_k, paper_ids, env) ==
    LET found == search(env.answer, env.search_ok, top_k * 2, paper_ids, SCORE_THRESHOLD)
        search_results == Prefix(_filter_and_rerank(found, question), top_k)
        citations == _prepare_context(search_results)
        calls2 == <<Call("embed", "expanded question"),
                    Call("search", embed_text(env.embed_ok))>>
        calls4 == Append(calls2, Call("generate", "prompt"))
    IN  IF found # << >> /\ env.fault = "rerank"
        THEN [result |-> ErrorResult, calls |-> calls2, raised |-> TRUE, propagated |-> TRUE]
        ELSE IF search_results = << >>
        THEN [result |-> Result(FALLBACK_ANSWER, << >>, << >>, 0, ElapsedTime),
              calls |-> calls2, raised |-> FALSE, propagated |-> FALSE]
        ELSE IF env.fault = "confidence"
        THEN [result |-> ErrorResult, calls |-> calls4, raised |-> TRUE, propagated |-> TRUE]
        ELSE [result |-> Result(_generate_answer(env.gen_ok), citations,
                                UniqueInOrder(env.set_order,
                                    [i \in 1..Len(citations) |-> citations[i].paper_title]),
                                _calculate_confidence(search_results), ElapsedTime),
              calls |-> calls4, raised |-> FALSE, propagated |-> FALSE]

\* Mutant: a fault of the generator leaves _generate_answer and reaches the
\* except branch of query()
query_generator_fatal(question, top_k, paper_ids, env) ==
    LET found == search(env.answer, env.search_ok, top_k * 2, paper_ids, SCORE_THRESHOLD)
        search_results == Prefix(_filter_and_rerank(found, question), top_k)
        citations == _prepare_context(search_results)
        calls2 == <<Call("embed", "expanded question"),
                    Call("search", embed_text(env.embed_ok))>>
        calls4 == Append(calls2, Call("generate", "prompt"))
    IN  IF found # << >> /\ env.fault = "rerank"
        THEN [result |-> ErrorResult, calls |-> calls2, raised |-> TRUE, propagated |-> FALSE]
        ELSE IF search_results = << >>
        THEN [result |-> Result(FALLBACK_ANSWER, << >>, << >>, 0, ElapsedTime),
              calls |-> calls2, raised |-> FALSE, propagated |-> FALSE]
        ELSE IF env.fault = "confidence" \/ ~env.gen_ok
        THEN [result |-> ErrorResult, calls |-> calls4, raised |-> TRUE, propagated |-> FALSE]
        ELSE [result |-> Result(_generate_answer(env.gen_ok), citations,
                                UniqueInOrder(env.set_order,
                                    [i \in 1..Len(citations) |-> citations[i].paper_title]),
                                _calculate_confidence(search_results), ElapsedTime),
              calls |-> calls4, raised |-> FALSE, propagated |-> FALSE]

\* Mutant: query() without the "if not search_results" return
query_no_short_circuit(question, top_k, paper_ids, env) ==
    LET found == search(env.answer, env.search_ok, top_k * 2, paper_ids, SCORE_THRESHOLD)
        search_results == Prefix(_filter_and_rerank(found, question), top_k)
        citations == _prepare_context(search_results)
        calls2 == <<Call("embed", "expanded question"),
                    Call("search", embed_text(env.embed_ok))>>
        calls4 == Append(calls2, Call("generate", "prompt"))
    IN  IF found # << >> /\ env.fault = "rerank"
        THEN [result |-> ErrorResult, calls |-> calls2, raised |-> TRUE, propagated |-> FALSE]
        ELSE IF env.fault = "confidence"
        THEN [result |-> ErrorResult, calls |-> calls4, raised |-> TRUE, propagated |-> FALSE]
        ELSE [result |-> Result(_generate_answer(env.gen_ok), citations,
                                UniqueInOrder(env.set_order,
                                    [i \in 1..Len(citations) |-> citations[i].paper_title]),
                                _calculate_confidence(search_results), ElapsedTime),
              calls |-> calls4, raised |-> FALSE, propagated |-> FALSE]

\* Mutant: query() without search_results[:top_k]
query_untruncated(question, top_k, paper_ids, env) ==
    LET found == search(env.answer, env.search_ok, top_k * 2, paper_ids, SCORE_THRESHOLD)
        search_results == _filter_and_rerank(found, question)
        citations == _prepare_context(search_results)
        calls2 == <<Call("embed", "expanded question"),
                    Call("search", embed_text(env.embed_ok))>>
        calls4 == Append(calls2, Call("generate", "prompt"))
    IN  IF found # << >> /\ env.fault = "rerank"
        THEN [result |-> ErrorResult, calls |-> calls2, raised |-> TRUE, propagated |-> FALSE]
        ELSE IF search_results = << >>
        THEN [result |-> Result(FALLBACK_ANSWER, << >>, << >>, 0, ElapsedTime),
              calls |-> calls2, raised |-> FALSE, propagated |-> FALSE]
        ELSE IF env.fault = "confidence"
        THEN [result |-> ErrorResult, calls |-> calls4, raised |-> TRUE, propagated |-> FALSE]
        ELSE [result |-> Result(_generate_answer(env.gen_ok), citations,
                                UniqueInOrder(env.set_order,
                                    [i \in 1..Len(citations) |-> citations[i].paper_title]),
                                _calculate_confidence(search_results), ElapsedTime),
              calls |-> calls4, raised |-> FALSE, propagated |-> FALSE]

\* Mutant: query() searches a second time when the index answered nothing
query_retries_search(question, top_k, paper_ids, env) ==
    LET found == search(env.answer, env.search_ok, top_k * 2, paper_ids, SCORE_THRESHOLD)
        search_results == Prefix(_filter_and_rerank(found, question), top_k)
        citations == _prepare_context(search_results)
        calls2 == IF found = << >>
                  THEN <<Call("embed", "expanded question"),
                         Call("search", embed_text(env.embed_ok)),
                         Call("search", embed_text(env.embed_ok))>>
                  ELSE <<Call("embed", "expanded question"),
                         Call("search", embed_text(env.embed_ok))>>
        calls4 == Append(calls2, Call("generate", "prompt"))
    IN  IF found # << >> /\ env.fault = "rerank"
        THEN [result |-> ErrorResult, calls |-> calls2, raised |-> TRUE, propagated |-> FALSE]
        ELSE IF search_results = << >>
        THEN [result |-> Result(FALLBACK_ANSWER, << >>, << >>, 0, ElapsedTime),
              calls |-> calls2, raised |-> FALSE, propagated |-> FALSE]
        ELSE IF env.fault = "confidence"
        THEN [result |-> ErrorResult, calls |-> calls4, raised |-> TRUE, propagated |-> FALSE]
        ELSE [result |-> Result(_generate_answer(env.gen_ok), citations,
                                UniqueInOrder(env.set_order,
                                    [i \in 1..Len(citations) |-> citations[i].paper_title]),
                                _calculate_confidence(search_results), ElapsedTime),
              calls |-> calls4, raised |-> FALSE, propagated |-> FALSE]

\* RAGPipeline.query: the result returned, the collaborator calls made, whether
\* an exception was raised inside its try block (raised) and whether one left
\* query() (propagated)
query(question, top_k, paper_ids, env) ==
    LET query_embedding == embed_text(env.embed_ok)
        found == search(env.answer, env.search_ok, top_k * 2, paper_ids, SCORE_THRESHOLD)
        calls2 == <<Call("embed", "expanded question"), Call("search", query_embedding)>>
        reranked == _filter_and_rerank(found, question)
        search_results == Prefix(reranked, top_k)
        citations == _prepare_context(search_results)
        answer == _generate_answer(env.gen_ok)
        calls4 == Append(calls2, Call("generate", "prompt"))
        confidence == _calculate_confidence(search_results)
        sources_used ==
            UniqueInOrder(env.set_order, [i \in 1..Len(citations) |-> citations[i].paper_title])
    IN  IF found # << >> /\ env.fault = "rerank"
        THEN [result |-> ErrorResult, calls |-> calls2, raised |-> TRUE, propagated |-> FALSE]
        ELSE IF search_results = << >>
        THEN [result |-> Result(FALLBACK_ANSWER, << >>, << >>, 0, ElapsedTime),
              calls |-> calls2, raised |-> FALSE, propagated |-> FALSE]
        ELSE IF env.fault = "confidence"
        THEN [result |-> ErrorResult, calls |-> calls4, raised |-> TRUE, propagated |-> FALSE]
        ELSE [result |-> Result(answer, citations, sources_used, confidence, ElapsedTime),
              calls |-> calls4, raised |-> FALSE, propagated |-> FALSE]

(***************************************************************************)
(* schemas.py: QueryRequest, Citation, QueryResponse                       *)
(***************************************************************************)
Request(question, top_k, paper_ids) ==
    [question |-> question, top_k |-> top_k, paper_ids |-> paper_ids]

\* Mutant: top_k has no upper limit
ValidRequest_unbounded_top_k(request) ==
    /\ Len(request.question) >= MIN_LENGTH
    /\ request.top_k >= TOP_K_MIN

\* QueryRequest: question min_length=3, top_k ge=1 le=20
ValidRequest(request) ==
    /\ Len(request.question) >= MIN_LENGTH
    /\ request.top_k >= TOP_K_MIN
    /\ request.top_k <= TOP_K_MAX

\* Citation(**c): the fields of the schema; the other keys are ignored
CitationModel(c) ==
    [paper_title |-> c.paper_title, filename |-> c.filename, section |-> c.section,
     page |-> c.page, relevance_score |-> c.relevance_score, chunk_text |-> c.chunk_text]

\* Citation: relevance_score ge=0.0 le=1.0
ValidCitation(c) == c.relevance_score >= 0 /\ c.relevance_score <= 1000

\* QueryResponse: confidence ge=0.0 le=1.0, every citation a Citation
ValidResponse(result) ==
    /\ result.confidence >= 0
    /\ result.confidence <= 1000
    /\ \A i \in 1..Len(result.citations) : ValidCitation(result.citations[i])

\* QueryResponse(**result)
QueryResponse(result) ==
    [answer |-> result.answer,
     citations |-> [i \in 1..Len(result.citations) |-> CitationModel(result.citations[i])],
     sources_used |-> result.sources_used,
     confidence |-> result.confidence,
     response_time |-> result.response_time,
     cached |-> result.cached]

\* result['cached'] = ...; result['response_time'] = ...
WithCached(result, cached, response_time) ==
    [answer |-> result.answer, citations |-> result.citations,
     sources_used |-> result.sources_used, confidence |-> result.confidence,
     response_time |-> response_time, cached |-> cached]

(***************************************************************************)
(* routes.py: POST /api/query                                              *)
(***************************************************************************)
CacheFaults == {"none", "get", "set"}
DbFaults == {"none", "locked", "connection"}

\* A request during which every collaborator works and the index answers ChunkMid
EnvOk ==
    [embed_ok |-> TRUE, search_ok |-> TRUE, answer |-> <<ChunkMid>>, gen_ok |-> TRUE,
     fault |-> "none", set_order |-> <<"T1", "T2">>, cache_fault |-> "none",
     db_fault |-> "none"]

\* The requests during which one collaborator fails, or the index answers otherwise
QueryEnv ==
    {EnvOk,
     [EnvOk EXCEPT !.answer = << >>],
     [EnvOk EXCEPT !.answer = <<ChunkHigh, ChunkMid>>],
     [EnvOk EXCEPT !.answer = <<ChunkHigh, ChunkDup, ChunkMid>>],
     [EnvOk EXCEPT !.answer = <<ChunkHigh, ChunkDup, ChunkMid>>,
                   !.set_order = <<"T2", "T1">>],
     [EnvOk EXCEPT !.embed_ok = FALSE],
     [EnvOk EXCEPT !.embed_ok = FALSE, !.answer = << >>],
     [EnvOk EXCEPT !.gen_ok = FALSE, !.answer = <<ChunkHigh, ChunkDup, ChunkMid>>],
     [EnvOk EXCEPT !.search_ok = FALSE],
     [EnvOk EXCEPT !.gen_ok = FALSE],
     [EnvOk EXCEPT !.fault = "rerank"],
     [EnvOk EXCEPT !.fault = "confidence"],
     [EnvOk EXCEPT !.cache_fault = "get"],
     [EnvOk EXCEPT !.cache_fault = "set"],
     [EnvOk EXCEPT !.db_fault = "locked"],
     [EnvOk EXCEPT !.db_fault = "connection"]}

\* The requests of ordinary traffic
TrafficEnv == {EnvOk}

\* What a handler did and answered
Outcome(op, request, env, kind, status, body, cache_hit, ran, pipeline) ==
    [op |-> op, request |-> request, env |-> env, kind |-> kind, status |-> status,
     body |-> body, cache_hit |-> cache_hit, ran |-> ran, pipeline |-> pipeline,
     paper_id |-> 0, lookup |-> "none"]

NoPipeline ==
    [result |-> ErrorResult, calls |-> << >>, raised |-> FALSE, propagated |-> FALSE]

\* the except branch of query_papers: the status by the words of the message
ErrorStatus(env) == IF env.db_fault = "connection" THEN 503 ELSE 500

\* The tail of query_papers: the query saved to the database, then
\* QueryResponse(**result)
Respond(request, env, result, cache_hit, ran, pipeline) ==
    IF env.db_fault # "none" \/ ~ValidResponse(result)
    THEN Outcome("query", request, env, "http_error", ErrorStatus(env), None,
                 cache_hit, ran, pipeline)
    ELSE Outcome("query", request, env, "ok", 200, Some(QueryResponse(result)),
                 cache_hit, ran, pipeline)

\* The cache-miss branch of query_papers
RunPipeline(q, enabled, request, env, t) ==
    LET p == query(request.question, request.top_k, request.paper_ids, env)
        result == WithCached(p.result, FALSE, p.result.response_time)
    IN  IF p.propagated
        THEN [q |-> q,
              out |-> Outcome("query", request, env, "http_error", ErrorStatus(env), None,
                              FALSE, TRUE, p)]
        ELSE IF enabled /\ env.cache_fault = "set"
        THEN [q |-> q,
              out |-> Outcome("query", request, env, "http_error", ErrorStatus(env), None,
                              FALSE, TRUE, p)]
        ELSE [q |-> IF enabled
                    THEN set(q, request.question, result, request.top_k, request.paper_ids, t)
                    ELSE q,
              out |-> Respond(request, env, result, FALSE, TRUE, p)]

\* What the lookup of query_papers found: the key unexpired ("hit"), the key
\* expired ("expired") or no such key ("miss")
Lookup(q, request, t) ==
    LET i == KeyIndex(q.cache,
                      _normalize_query(request.question, request.top_k, request.paper_ids))
    IN  IF i = 0 THEN "miss"
        ELSE IF t < q.cache[i].expires_at THEN "hit" ELSE "expired"

\* query_papers: the cache afterwards and the outcome of the request
query_papers(q, enabled, request, env, t) ==
    IF enabled /\ env.cache_fault = "get"
    THEN [q |-> q,
          out |-> Outcome("query", request, env, "http_error", ErrorStatus(env), None,
                          FALSE, FALSE, NoPipeline)]
    ELSE IF enabled
    THEN LET g == get(q, request.question, request.top_k, request.paper_ids, t)
             i == KeyIndex(g.q.cache,
                           _normalize_query(request.question, request.top_k, request.paper_ids))
             r == IF g.ret.some
                  THEN LET result == WithCached(g.ret.v, TRUE, CACHE_HIT_TIME)
                       IN  \* result is the dict held by the entry: the entry changes too
                           [q |-> [g.q EXCEPT !.cache[i].response = result],
                            out |-> Respond(request, env, result, TRUE, FALSE, NoPipeline)]
                  ELSE RunPipeline(g.q, enabled, request, env, t)
         IN  [q |-> r.q, out |-> [r.out EXCEPT !.lookup = Lookup(q, request, t)]]
    ELSE RunPipeline(q, enabled, request, env, t)

(***************************************************************************)
(* routes.py: the cache endpoints and DELETE /api/papers/{paper_id}        *)
(***************************************************************************)
STATS_QUESTION_LEN == 100   \* entry['original_question'][:100]
STATS_TOP_N == 10           \* entries[:10]

\* entries.sort(key=hit_count, reverse=True); the sort is stable
RECURSIVE InsertByHits(_, _)
InsertByHits(x, xs) ==
    IF xs = <<>> THEN <<x>>
    ELSE IF x.hit_count >= Head(xs).hit_count THEN <<x>> \o xs
    ELSE <<Head(xs)>> \o InsertByHits(x, Tail(xs))

RECURSIVE SortByHits(_)
SortByHits(xs) == IF xs = <<>> THEN <<>> ELSE InsertByHits(Head(xs), SortByHits(Tail(xs)))

\* QueryCache.get_stats (the hit rate is left as its two terms)
get_stats(q, t) ==
    LET entries == [i \in 1..Len(q.cache) |->
                        [question |-> Prefix(q.cache[i].original_question, STATS_QUESTION_LEN),
                         hit_count |-> q.cache[i].hit_count,
                         created_at |-> q.cache[i].created_at,
                         ttl_seconds |-> q.cache[i].expires_at - t]]
    IN  [cache_size |-> Len(q.cache),
         max_size |-> max_size,
         total_hits |-> q.hits,
         total_misses |-> q.misses,
         total_requests |-> q.hits + q.misses,
         evictions |-> q.evictions,
         ttl_seconds |-> ttl_seconds,
         top_cached_queries |-> Prefix(SortByHits(entries), STATS_TOP_N)]

NoRequest == Request(<< >>, 0, None)

NoEnv == EnvOk

\* The outcome of a handler other than query_papers
Answered(op, kind, status, body, paper_id) ==
    [Outcome(op, NoRequest, NoEnv, kind, status, body, FALSE, FALSE, NoPipeline)
        EXCEPT !.paper_id = paper_id]

\* The statuses POST /api/papers/upload answers with: 200, 400 for a file
\* refused or without text, 500, 503 or 507 when processing raises
UploadStatuses == {200, 400, 500, 503, 507}

\* The outcome of an upload, with the cache as the handler found it (history)
Uploaded(status, before) ==
    LET a == Answered("upload", IF status = 200 THEN "ok" ELSE "http_error", status, None, 0)
    IN  [f \in DOMAIN a \cup {"before"} |-> IF f = "before" THEN before ELSE a[f]]

\* Mutant: the upload clears the cache before it processes the file
upload_paper_clears_first(q, enabled, status) ==
    [q |-> IF enabled THEN clear(q) ELSE q, out |-> Uploaded(status, q)]

\* upload_paper: the cache afterwards and the outcome; the cache is cleared
\* after the last statement that can raise
upload_paper(q, enabled, status) ==
    [q |-> IF status = 200 /\ enabled THEN clear(q) ELSE q,
     out |-> Uploaded(status, q)]

\* delete_paper: the cache afterwards and the outcome
delete_paper(q, enabled, paper_id, found, db_ok) ==
    IF ~found
    THEN [q |-> q, out |-> Answered("delete", "http_error", 404, None, paper_id)]
    ELSE [q |-> IF enabled THEN invalidate_by_paper(q, paper_id) ELSE q,
          out |-> IF db_ok
                  THEN Answered("delete", "ok", 200, None, paper_id)
                  ELSE Answered("delete", "http_error", 500, None, paper_id)]

(***************************************************************************)
(* The requests made of the service                                        *)
(***************************************************************************)
QuestionBC == <<"B", " ", "c">>                 \* "B c"
QuestionBCSpaced == <<" ", "b", "\t", " ", "C">>   \* " b\t C", the same after normalization
QuestionBCB == <<"b", "c", "b">>                \* "bcb"
QuestionShort == <<"b", "c">>                   \* "bc", shorter than min_length

\* The bodies of ordinary traffic: three cache keys, two spellings of two of them
Requests ==
    {Request(QuestionBC, 2, Some(<<1, 2>>)),
     Request(QuestionBCSpaced, 2, Some(<<2, 1>>)),
     Request(QuestionBCB, 2, None),
     Request(QuestionBCB, 2, Some(<< >>)),
     Request(QuestionBCB, 1, None),
     Request(QuestionShort, 2, None),
     Request(QuestionBCB, 0, None),
     Request(QuestionBCB, 21, None)}

\* The bodies sent while collaborators fail: two cache keys
FaultRequests ==
    {Request(QuestionBC, 2, None),
     Request(QuestionBCB, 1, None)}

PaperIds == {1, 3}

(***************************************************************************)
(* The state machine                                                       *)
(***************************************************************************)
Q == CacheObj(cache, hits, misses, evictions)

\* The cache object written back to the variables
Becomes(q) ==
    /\ cache' = q.cache
    /\ hits' = q.hits
    /\ misses' = q.misses
    /\ evictions' = q.evictions

Init ==
    /\ CACHE_ENABLED \in BOOLEAN
    /\ max_size \in 0..MaxCap
    /\ ttl_seconds = TtlSeconds
    /\ cache = << >>
    /\ hits = 0
    /\ misses = 0
    /\ evictions = 0
    /\ now = 0
    /\ last = Answered("init", "ok", 200, None, 0)
    /\ loop = LoopIdle
    /\ gets = 0

\* POST /api/query with a body the request schema accepts
Query(requests, envs, max_gets) ==
    /\ hits + misses < max_gets
    /\ \E request \in requests, env \in envs :
        /\ ValidRequest(request)
        /\ LET r == query_papers(Q, CACHE_ENABLED, request, env, now)
           IN  /\ Becomes(r.q)
               /\ last' = r.out
               /\ gets' = IF r.out.lookup # "none" THEN gets + 1 ELSE gets
    /\ UNCHANGED <<loop, CACHE_ENABLED, max_size, ttl_seconds, now>>

QueryPapers == Query(Requests, TrafficEnv, MaxGets)

QueryPapersFaulty == Query(FaultRequests, QueryEnv, MaxFaultyGets)

\* POST /api/query with a body the request schema rejects: the handler does not run
QueryRejected ==
    /\ \E request \in Requests :
        /\ ~ValidRequest(request)
        /\ last' = Outcome("query", request, NoEnv, "rejected", 422, None,
                           FALSE, FALSE, NoPipeline)
    /\ UNCHANGED <<gets, loop, CACHE_ENABLED, max_size, ttl_seconds, cache, hits, misses, evictions, now>>

\* DELETE /api/papers/{paper_id}
DeletePaper ==
    /\ \E paper_id \in PaperIds, found \in BOOLEAN, db_ok \in BOOLEAN :
        LET r == delete_paper(Q, CACHE_ENABLED, paper_id, found, db_ok)
        IN  Becomes(r.q) /\ last' = r.out
    /\ UNCHANGED <<gets, loop, CACHE_ENABLED, max_size, ttl_seconds, now>>

\* POST /api/papers/upload
UploadPaper ==
    /\ \E status \in UploadStatuses :
        LET r == upload_paper(Q, CACHE_ENABLED, status)
        IN  /\ Becomes(r.q)
            /\ last' = r.out
            /\ gets' = IF status = 200 /\ CACHE_ENABLED THEN 0 ELSE gets
    /\ UNCHANGED <<loop, CACHE_ENABLED, max_size, ttl_seconds, now>>

\* POST /api/cache/clear
ClearCache ==
    /\ IF CACHE_ENABLED
       THEN /\ Becomes(clear(Q))
            /\ gets' = 0
            /\ last' = Answered("clear", "ok", 200, None, 0)
       ELSE /\ Becomes(Q)
            /\ gets' = gets
            /\ last' = Answered("clear", "http_error", 400, None, 0)
    /\ UNCHANGED <<loop, CACHE_ENABLED, max_size, ttl_seconds, now>>

\* POST /api/cache/cleanup
CleanupExpiredCache ==
    /\ IF CACHE_ENABLED
       THEN LET r == cleanup_expired(Q, now)
            IN  Becomes(r.q) /\ last' = Answered("cleanup", "ok", 200, Some(r.ret), 0)
       ELSE Becomes(Q) /\ last' = Answered("cleanup", "http_error", 400, None, 0)
    /\ UNCHANGED <<gets, loop, CACHE_ENABLED, max_size, ttl_seconds, now>>

\* GET /api/cache/stats
GetCacheStats ==
    /\ last' = IF CACHE_ENABLED
               THEN Answered("stats", "ok", 200, Some(get_stats(Q, now)), 0)
               ELSE Answered("stats", "ok", 200, None, 0)
    /\ UNCHANGED <<gets, loop, CACHE_ENABLED, max_size, ttl_seconds, cache, hits, misses, evictions, now>>

\* A second passes
Tick ==
    /\ now < MaxTime
    /\ now' = now + 1
    /\ UNCHANGED <<gets, loop, CACHE_ENABLED, max_size, ttl_seconds, cache, hits, misses, evictions, last>>

Next ==
    \/ QueryPapers
    \/ QueryRejected
    \/ UploadPaper
    \/ DeletePaper
    \/ ClearCache
    \/ CleanupExpiredCache
    \/ GetCacheStats
    \/ Tick

Spec == Init /\ [][Next]_vars

\* The service while collaborators fail
FaultNext ==
    \/ QueryPapersFaulty
    \/ ClearCache

FaultSpec == Init /\ [][FaultNext]_vars

(***************************************************************************)
(* The re-ranking and the confidence on their own: _filter_and_rerank,     *)
(* search_results[:top_k] and _calculate_confidence applied to what the    *)
(* index may return                                                        *)
(***************************************************************************)
\* A text of FINGERPRINT_LEN times "a" followed by `tail`
LongText(tail) == [i \in 1..FINGERPRINT_LEN |-> "a"] \o tail

\* The chunks of an index, best raw score first
IndexChunks ==
    <<Hit("a1", 1000, Payload(<<"b", " ", "c">>, "Intro", "T1", 1)),
      Hit("a2", 1000, Payload(<<"B", " ", "c">>, "Intro", "T1", 1)),
      Hit("a3", 1000, Payload(<<" ", "b", " ", "c">>, "Intro", "T2", 2)),
      Hit("a4", 1000, Payload(<<"c", " ", "b">>, "Intro", "T2", 2)),
      Hit("a5", 1000, Payload(<<"b", "c">>, "Intro", "T3", 3)),
      Hit("a6", 1000, Payload(<<"c", "b">>, "Intro", "T1", 1)),
      Hit("r1", 1000, Payload(<<"b", "c", "b">>, "Results", "T2", 2)),
      Hit("m1", 900, Payload(<<"x">>, "<missing>", "T3", 3)),
      Hit("m2", 860, Payload(<<"x", "x">>, "<missing>", "T1", 1)),
      Hit("o1", 840, Payload(<<"x", " ", "c">>, "Other", "T2", 2)),
      Hit("m3", 700, Payload(<<"x", "x", "x">>, "<missing>", "T3", 3)),
      Hit("l1", 400, Payload(LongText(<<"x">>), "Results", "T1", 1)),
      Hit("l2", 300, Payload(LongText(<<"y">>), "Results", "T2", 2))>>

\* The chunks of `chunks` at the positions idx, in their order
Pick(chunks, idx) ==
    LET F[i \in 0..Len(chunks)] ==
            IF i = 0 THEN << >>
            ELSE IF i \in idx THEN Append(F[i - 1], chunks[i]) ELSE F[i - 1]
    IN  F[Len(chunks)]

\* What QdrantService.search may return: at most MaxFound chunks, best first
CandidateLists ==
    {Pick(IndexChunks, idx) :
        idx \in {s \in SUBSET (1..Len(IndexChunks)) : Cardinality(s) <= MaxFound}}

\* "aa aaa aaaa aaaaa aaaaaa ax": six keywords, five of them in every long text
QuestionSixWords ==
    <<"a", "a", " ", "a", "a", "a", " ", "a", "a", "a", "a", " ", "a",
      "a", "a", "a", "a", " ", "a", "a", "a", "a", "a", "a", " ", "a",
      "x">>

RerankQuestions == {QuestionBC, <<"t", "h", "e", " ", "X">>, QuestionSixWords}

RerankTopK == {TOP_K_MIN, CONF_TOP_N, MaxFound}

RerankInit ==
    /\ CACHE_ENABLED = FALSE
    /\ max_size = 0
    /\ ttl_seconds = TtlSeconds
    /\ cache = << >>
    /\ hits = 0
    /\ misses = 0
    /\ evictions = 0
    /\ now = 0
    /\ loop = LoopIdle
    /\ gets = 0
    /\ \E question \in RerankQuestions, found \in CandidateLists :
        last = [op |-> "search", question |-> question, found |-> found]

\* search_results = self._filter_and_rerank(search_results, question)
Rerank ==
    /\ last.op = "search"
    /\ last' = [op |-> "rerank", question |-> last.question, found |-> last.found,
                reranked |-> _filter_and_rerank(last.found, last.question)]
    /\ UNCHANGED <<gets, loop, CACHE_ENABLED, max_size, ttl_seconds, cache, hits, misses, evictions, now>>

\* search_results = search_results[:top_k];
\* confidence = self._calculate_confidence(search_results)
Confidence ==
    /\ last.op = "rerank"
    /\ \E top_k \in RerankTopK :
        LET search_results == Prefix(last.reranked, top_k)
        IN  last' = [op |-> "confidence", question |-> last.question, found |-> last.found,
                     reranked |-> last.reranked, top_k |-> top_k,
                     search_results |-> search_results,
                     confidence |-> _calculate_confidence(search_results)]
    /\ UNCHANGED <<gets, loop, CACHE_ENABLED, max_size, ttl_seconds, cache, hits, misses, evictions, now>>

RerankNext ==
    \/ Rerank
    \/ Confidence

RerankSpec == RerankInit /\ [][RerankNext]_vars

(***************************************************************************)
(* The handlers as coroutines of one event loop.  main.py starts one       *)
(* uvicorn process; every handler of routes.py is an `async def`, and the  *)
(* loop runs a coroutine until it awaits or returns.  Here a handler is a  *)
(* frame that executes one statement of QueryCache per step; the clock is  *)
(* read once per cache operation, as in the operators above.               *)
(***************************************************************************)
\* Mutant: clear gives the loop back once the entries are dropped
Yields_inside_clear(pc) == pc = "clear:cache"

\* Mutant: the handler gives the loop back after every statement
Yields_after_every_statement(pc) == TRUE

\* Whether the handler awaits after the statement at pc: routes.py holds no
\* await, neither do QueryCache and RAGPipeline.query
Yields(pc) == FALSE

\* The statements after the first one of a cache operation
InsideCacheOp ==
    {"get:check", "get:hits", "get:hit_count", "get:touch", "get:return",
     "get:del", "get:miss",
     "evict:empty", "evict:min", "evict:del", "evict:count", "set:store",
     "inv:delete",
     "clear:hits", "clear:misses", "clear:evictions",
     "cleanup:delete"}

\* The frame of a handler that has not run yet
Frame(op, request, paper_id, pc) ==
    [op |-> op, request |-> request, paper_id |-> paper_id, pc |-> pc,
     cache_key |-> _normalize_query(request.question, request.top_k, request.paper_ids),
     before |-> CacheObj(<< >>, 0, 0, 0),  \* history: the cache when the operation began
     t |-> 0,                              \* the clock as the operation read it
     expires_at |-> 0,                     \* entry['expires_at']
     oldest_key |-> None,                  \* oldest_key of _evict_oldest
     keys |-> << >>,                       \* keys_to_remove / expired_keys
     removed |-> 0,                        \* len(expired_keys)
     ret |-> None,                         \* what get returned
     result |-> None]                      \* result of query_papers

\* The bodies sent while other requests are in flight: two cache keys
LoopRequests ==
    {Request(QuestionBC, 2, Some(<<1, 2>>)),
     Request(QuestionBCB, 2, None)}

\* The handlers that touch the cache, at their first statement on it
Handlers ==
    {Frame("query_papers", request, 0, "get:in") : request \in LoopRequests}
    \cup {Frame("delete_paper", NoRequest, 1, "inv:collect"),
          Frame("clear_cache", NoRequest, 0, "clear:cache"),
          Frame("cleanup_expired_cache", NoRequest, 0, "cleanup:collect")}

\* The keys of the entries of c that Test accepts, in dict order
KeysToRemove(c, paper_id) ==
    LET Test(entry) == InvalidatedBy(entry, paper_id)
        picked == SelectSeq(c, Test)
    IN  [i \in 1..Len(picked) |-> picked[i].key]

ExpiredKeys(c, current_time) ==
    LET Test(entry) == current_time >= entry.expires_at
        picked == SelectSeq(c, Test)
    IN  [i \in 1..Len(picked) |-> picked[i].key]

\* The outcome of one statement: the frame and the cache afterwards, whether
\* the handler is over, and the cache operation that returned, if one did
Goes(f, q) == [f |-> f, q |-> q, done |-> FALSE, completed |-> "none"]

Returns(f, q, operation, done) == [f |-> f, q |-> q, done |-> done, completed |-> operation]

\* An exception leaves the handler (KeyError, ValueError): it answers 500
Raises(f, q) == [f |-> f, q |-> q, done |-> TRUE, completed |-> "none"]

\* QueryCache.get and what query_papers does with a hit, a statement per step
StepGet(f, q, t) ==
    LET i == KeyIndex(q.cache, f.cache_key)
    IN  CASE f.pc = "get:in" ->          \* if cache_key in self.cache: entry = ...
                IF i # 0
                THEN Goes([f EXCEPT !.before = q, !.t = t, !.pc = "get:check",
                                    !.expires_at = q.cache[i].expires_at,
                                    !.ret = Some(q.cache[i].response)], q)
                ELSE Goes([f EXCEPT !.before = q, !.t = t, !.pc = "get:miss"], q)
          [] f.pc = "get:check" ->       \* if time.time() < entry['expires_at']
                Goes([f EXCEPT !.pc = IF t < f.expires_at THEN "get:hits" ELSE "get:del"], q)
          [] f.pc = "get:hits" ->        \* self.hits += 1
                Goes([f EXCEPT !.pc = "get:hit_count"], [q EXCEPT !.hits = @ + 1])
          [] f.pc = "get:hit_count" ->   \* entry['hit_count'] += 1
                Goes([f EXCEPT !.pc = "get:touch"],
                     IF i # 0 THEN [q EXCEPT !.cache[i].hit_count = @ + 1] ELSE q)
          [] f.pc = "get:touch" ->       \* entry['last_accessed'] = datetime.now()
                Goes([f EXCEPT !.pc = "get:return"],
                     IF i # 0 THEN [q EXCEPT !.cache[i].last_accessed = t] ELSE q)
          [] f.pc = "get:return" ->      \* return entry['response']
                Returns([f EXCEPT !.pc = "hit:mark",
                                  !.ret = IF i # 0 THEN Some(q.cache[i].response) ELSE @],
                        q, "get", FALSE)
          [] f.pc = "get:del" ->         \* del self.cache[cache_key]
                IF i # 0
                THEN Goes([f EXCEPT !.pc = "get:miss"], [q EXCEPT !.cache = DelAt(@, i)])
                ELSE Raises(f, q)
          [] f.pc = "get:miss" ->        \* self.misses += 1; return None
                Returns([f EXCEPT !.pc = "pipeline", !.ret = None],
                        [q EXCEPT !.misses = @ + 1], "get", FALSE)
          [] f.pc = "hit:mark" ->        \* result['cached'] = True; result['response_time'] = 0.001
                LET result == WithCached(f.ret.v, TRUE, CACHE_HIT_TIME)
                IN  Returns([f EXCEPT !.result = Some(result)],
                            IF i # 0 THEN [q EXCEPT !.cache[i].response = result] ELSE q,
                            "none", TRUE)

\* The miss branch of query_papers: rag_pipeline.query, then QueryCache.set
\* with _evict_oldest, a statement per step
StepSet(f, q, t) ==
    CASE f.pc = "pipeline" ->            \* result = rag_pipeline.query(...); result['cached'] = False
            LET p == query(f.request.question, f.request.top_k, f.request.paper_ids, EnvOk)
            IN  Goes([f EXCEPT !.pc = "set:full",
                               !.result = Some(WithCached(p.result, FALSE,
                                                          p.result.response_time))], q)
      [] f.pc = "set:full" ->            \* if len(self.cache) >= self.max_size
            Goes([f EXCEPT !.before = q, !.t = t,
                           !.pc = IF Len(q.cache) >= max_size
                                  THEN "evict:empty" ELSE "set:store"], q)
      [] f.pc = "evict:empty" ->         \* if not self.cache: return
            Goes([f EXCEPT !.pc = IF q.cache = << >> THEN "set:store" ELSE "evict:min"], q)
      [] f.pc = "evict:min" ->           \* oldest_key = min(self.cache.keys(), key=...)
            IF q.cache # << >>
            THEN Goes([f EXCEPT !.pc = "evict:del",
                                !.oldest_key = Some(q.cache[OldestIndex(q.cache)].key)], q)
            ELSE Raises(f, q)
      [] f.pc = "evict:del" ->           \* del self.cache[oldest_key]
            LET i == KeyIndex(q.cache, f.oldest_key.v)
            IN  IF i # 0
                THEN Goes([f EXCEPT !.pc = "evict:count"], [q EXCEPT !.cache = DelAt(@, i)])
                ELSE Raises(f, q)
      [] f.pc = "evict:count" ->         \* self.evictions += 1
            Goes([f EXCEPT !.pc = "set:store"], [q EXCEPT !.evictions = @ + 1])
      [] f.pc = "set:store" ->           \* self.cache[cache_key] = {...}
            LET entry == [key |-> f.cache_key,
                          response |-> f.result.v,
                          created_at |-> t,
                          last_accessed |-> t,
                          expires_at |-> t + ttl_seconds,
                          hit_count |-> 0,
                          original_question |-> f.request.question,
                          top_k |-> f.request.top_k,
                          paper_ids |-> f.request.paper_ids,
                          stored |-> f.result.v]
            IN  Returns(f, [q EXCEPT !.cache = DictPut(@, entry)], "set", TRUE)

\* for key in keys: del self.cache[key], one key per step; the operation
\* returns when no key is left
StepDelete(f, q, operation) ==
    IF f.keys = << >>
    THEN Returns(f, q, operation, TRUE)
    ELSE LET i == KeyIndex(q.cache, Head(f.keys))
         IN  IF i # 0
             THEN Goes([f EXCEPT !.keys = Tail(@)], [q EXCEPT !.cache = DelAt(@, i)])
             ELSE Raises(f, q)

\* invalidate_by_paper, clear and cleanup_expired, a statement per step
StepMaintain(f, q, t) ==
    CASE f.pc = "inv:collect" ->         \* keys_to_remove = [...]
            Goes([f EXCEPT !.before = q, !.t = t, !.pc = "inv:delete",
                           !.keys = KeysToRemove(q.cache, f.paper_id)], q)
      [] f.pc = "inv:delete" ->
            StepDelete(f, q, "invalidate_by_paper")
      [] f.pc = "clear:cache" ->         \* self.cache.clear()
            Goes([f EXCEPT !.before = q, !.t = t, !.pc = "clear:hits"],
                 [q EXCEPT !.cache = << >>])
      [] f.pc = "clear:hits" ->          \* self.hits = 0
            Goes([f EXCEPT !.pc = "clear:misses"], [q EXCEPT !.hits = 0])
      [] f.pc = "clear:misses" ->        \* self.misses = 0
            Goes([f EXCEPT !.pc = "clear:evictions"], [q EXCEPT !.misses = 0])
      [] f.pc = "clear:evictions" ->     \* self.evictions = 0
            Returns(f, [q EXCEPT !.evictions = 0], "clear", TRUE)
      [] f.pc = "cleanup:collect" ->     \* current_time = time.time(); expired_keys = [...]
            LET expired_keys == ExpiredKeys(q.cache, t)
            IN  Goes([f EXCEPT !.before = q, !.t = t, !.pc = "cleanup:delete",
                               !.keys = expired_keys, !.removed = Len(expired_keys)], q)
      [] f.pc = "cleanup:delete" ->
            StepDelete(f, q, "cleanup_expired")

\* The next statement of the handler in frame f
Step(f, q, t) ==
    IF f.pc \in {"get:in", "get:check", "get:hits", "get:hit_count", "get:touch",
                 "get:return", "get:del", "get:miss", "hit:mark"}
    THEN StepGet(f, q, t)
    ELSE IF f.op = "query_papers"
    THEN StepSet(f, q, t)
    ELSE StepMaintain(f, q, t)

\* A cache operation that returned: its arguments, the cache when it began
\* and when it returned, what it returned, and how many other handlers were
\* in flight
Completed(f, operation, after, others) ==
    [op |-> operation, request |-> f.request, paper_id |-> f.paper_id,
     response |-> f.result, before |-> f.before, after |-> after, t |-> f.t,
     ret |-> IF operation = "get" THEN f.ret
             ELSE IF operation = "cleanup_expired" THEN Some(f.removed)
             ELSE None,
     others |-> others]

LoopInit ==
    /\ CACHE_ENABLED = TRUE
    /\ max_size \in 0..MaxCap
    /\ ttl_seconds = TtlSeconds
    /\ cache = << >>
    /\ hits = 0
    /\ misses = 0
    /\ evictions = 0
    /\ now = 0
    /\ last = Completed(Frame("init", NoRequest, 0, "init"), "init",
                        CacheObj(<< >>, 0, 0, 0), 0)
    /\ loop = LoopIdle
    /\ gets = 0

\* A request reaches the server: its handler is scheduled on the loop
Arrive ==
    /\ loop.arrived < MaxArrivals
    /\ Len(loop.tasks) < MaxInFlight
    /\ \E f \in Handlers :
        loop' = [loop EXCEPT !.tasks = Append(@, f), !.arrived = @ + 1]
    /\ UNCHANGED <<gets, CACHE_ENABLED, max_size, ttl_seconds, cache, hits, misses, evictions, now, last>>

\* The loop, not running a handler, resumes one of those in flight
Dispatch ==
    /\ loop.running = 0
    /\ \E i \in 1..Len(loop.tasks) : loop' = [loop EXCEPT !.running = i]
    /\ UNCHANGED <<gets, CACHE_ENABLED, max_size, ttl_seconds, cache, hits, misses, evictions, now, last>>

\* The running handler executes its next statement
RunStep ==
    /\ loop.running # 0
    /\ LET i == loop.running
           f == loop.tasks[i]
           s == Step(f, Q, now)
       IN  /\ Becomes(s.q)
           /\ loop' = [loop EXCEPT
                        !.tasks = IF s.done THEN DelAt(@, i) ELSE [@ EXCEPT ![i] = s.f],
                        !.running = IF s.done \/ Yields(f.pc) THEN 0 ELSE i]
           /\ last' = IF s.completed = "none"
                      THEN last
                      ELSE Completed(s.f, s.completed, s.q, Len(loop.tasks) - 1)
           /\ gets' = IF s.completed = "get" THEN gets + 1
                      ELSE IF s.completed = "clear" THEN 0
                      ELSE gets
    /\ UNCHANGED <<CACHE_ENABLED, max_size, ttl_seconds, now>>

\* A second passes, between cache operations
LoopTick ==
    /\ now < MaxTime
    /\ \A i \in 1..Len(loop.tasks) : loop.tasks[i].pc \notin InsideCacheOp
    /\ now' = now + 1
    /\ UNCHANGED <<gets, CACHE_ENABLED, max_size, ttl_seconds, cache, hits, misses, evictions, last, loop>>

LoopNext ==
    \/ Arrive
    \/ Dispatch
    \/ RunStep
    \/ LoopTick

LoopSpec == LoopInit /\ [][LoopNext]_vars

(***************************************************************************)
(* QueryCache on its own: get, set and cleanup_expired called directly on  *)
(* a store of StoreCap entries with a TTL of StoreTtl seconds. Beside the  *)
(* store, last.plain is the store that received the same gets and sets and *)
(* none of the sweeps.                                                     *)
(***************************************************************************)
StoreCap == 2       \* the store on its own: max_size
StoreTtl == 3       \* the store on its own: ttl_seconds
StoreMaxTime == 3   \* the store on its own: the clock runs from 0 to StoreMaxTime
MaxStoreOps == 6    \* the store on its own: at most MaxStoreOps calls

\* The requests the store is called with: three cache keys
StoreRequests ==
    {Request(QuestionBC, 2, None),
     Request(QuestionBCB, 2, None),
     Request(QuestionBCB, 1, None)}

\* The payload stored for a request
StorePayload(request) == [answer |-> request.question]

\* A call of the store: what it returned, and what the store without sweeps returned
StoreCall(op, request, ret, plain, plain_ret, ops) ==
    [op |-> op, request |-> request, ret |-> ret,
     plain |-> plain, plain_ret |-> plain_ret, ops |-> ops]

StoreInit ==
    /\ CACHE_ENABLED = TRUE
    /\ max_size = StoreCap
    /\ ttl_seconds = StoreTtl
    /\ cache = << >>
    /\ hits = 0
    /\ misses = 0
    /\ evictions = 0
    /\ now = 0
    /\ last = StoreCall("init", None, None, CacheObj(<< >>, 0, 0, 0), None, 0)
    /\ loop = LoopIdle
    /\ gets = 0

\* cache.get(question, top_k, paper_ids)
StoreGet ==
    /\ last.ops < MaxStoreOps
    /\ \E request \in StoreRequests :
        LET r == get(Q, request.question, request.top_k, request.paper_ids, now)
            p == get(last.plain, request.question, request.top_k, request.paper_ids, now)
        IN  /\ Becomes(r.q)
            /\ last' = StoreCall("get", Some(request), r.ret, p.q, p.ret, last.ops + 1)
    /\ gets' = gets + 1
    /\ UNCHANGED <<loop, CACHE_ENABLED, max_size, ttl_seconds, now>>

\* cache.set(question, response, top_k, paper_ids)
StoreSet ==
    /\ last.ops < MaxStoreOps
    /\ \E request \in StoreRequests :
        LET s == set(Q, request.question, StorePayload(request),
                     request.top_k, request.paper_ids, now)
            p == set(last.plain, request.question, StorePayload(request),
                     request.top_k, request.paper_ids, now)
        IN  /\ Becomes(s)
            /\ last' = StoreCall("set", Some(request), None, p, None, last.ops + 1)
    /\ UNCHANGED <<gets, loop, CACHE_ENABLED, max_size, ttl_seconds, now>>

\* cache.cleanup_expired(): the store without sweeps is not called
StoreSweep ==
    /\ last.ops < MaxStoreOps
    /\ LET c == cleanup_expired(Q, now)
       IN  /\ Becomes(c.q)
           /\ last' = StoreCall("cleanup", None, Some(c.ret), last.plain, None, last.ops + 1)
    /\ UNCHANGED <<gets, loop, CACHE_ENABLED, max_size, ttl_seconds, now>>

\* A second passes
StoreTick ==
    /\ now < StoreMaxTime
    /\ now' = now + 1
    /\ UNCHANGED <<gets, loop, CACHE_ENABLED, max_size, ttl_seconds, cache, hits, misses, evictions, last>>

StoreNext ==
    \/ StoreGet
    \/ StoreSet
    \/ StoreSweep
    \/ StoreTick

StoreSpec == StoreInit /\ [][StoreNext]_vars

(***************************************************************************)
(* Properties                                                              *)
(***************************************************************************)
ValidRequests == {request \in Requests : ValidRequest(request)}

RequestKey(request) == _normalize_query(request.question, request.top_k, request.paper_ids)

\* The request that stored an entry
EntryRequest(entry) == Request(entry.original_question, entry.top_k, entry.paper_ids)

\* The envelope of a hit on an entry that set stored with payload `stored`
Replay(stored) ==
    [QueryResponse(stored) EXCEPT !.cached = TRUE, !.response_time = CACHE_HIT_TIME]

\* A step of query_papers that looked the cache up
LookupStep == hits' + misses' = hits + misses + 1

\* C1: a request whose lookup is a hit is answered with cached=true and
\* response_time=0.001, and calls no collaborator.
C1_HitAnsweredFromCache ==
    (last.op = "query" /\ last.cache_hit) =>
        /\ last.kind = "ok"
        /\ last.body.v.cached
        /\ last.body.v.response_time = CACHE_HIT_TIME
        /\ ~last.ran
        /\ last.pipeline.calls = << >>

\* C2: the envelope of a hit carries the answer, citations, sources_used and
\* confidence of the payload that the latest set stored under the key; only
\* cached and response_time differ from the envelope of the populating request.
C2_HitReplaysStored ==
    [][(hits' = hits + 1 /\ last'.kind = "ok") =>
        LET i == KeyIndex(cache, RequestKey(last'.request))
        IN  /\ i # 0
            /\ last'.body.v = Replay(cache[i].stored)
            /\ last'.body.v.answer = cache[i].stored.answer
            /\ last'.body.v.sources_used = cache[i].stored.sources_used
            /\ last'.body.v.confidence = cache[i].stored.confidence]_vars

\* C2 witness: a second hit on one entry, answered with the generated answer
C2_Witness ==
    /\ last.op = "query" /\ last.cache_hit /\ last.kind = "ok"
    /\ last.body.v.answer = GENERATED_ANSWER
    /\ last.body.v.citations # << >>
    /\ \E i \in 1..Len(cache) : cache[i].hit_count >= 2 /\ cache[i].key = RequestKey(last.request)

\* C3: get returns no payload of an entry whose expiry is reached
\* (now >= expires_at): it reports absent and removes the entry.
C3_ExpiredIsAbsent ==
    \A request \in ValidRequests :
        LET i == KeyIndex(cache, RequestKey(request))
            g == get(Q, request.question, request.top_k, request.paper_ids, now)
        IN  /\ g.ret.some => (i # 0 /\ now < cache[i].expires_at)
            /\ (i # 0 /\ now >= cache[i].expires_at) =>
                    /\ ~g.ret.some
                    /\ KeyIndex(g.q.cache, RequestKey(request)) = 0
                    /\ g.q.cache = DelAt(cache, i)

\* C3 witness: a request has just looked up an expired entry that no sweep removed
C3_Witness ==
    /\ last.op = "query" /\ last.lookup = "expired" /\ ~last.cache_hit
    /\ last.ran

\* C4: the store never holds more than max_size entries.
C4_SizeWithinCapacity == Len(cache) <= max_size

\* C5: a set of a new key into a store of max_size entries removes exactly one
\* entry, one of least last_accessed, counts one eviction and leaves max_size
\* entries.
C5_EvictsLeastRecentlyAccessed ==
    [][(LookupStep /\ last'.lookup = "miss" /\ Len(cache) = max_size) =>
        /\ evictions' = evictions + 1
        /\ Len(cache') = max_size
        /\ \E i \in 1..Len(cache) :
            /\ \A j \in 1..Len(cache) : cache[i].last_accessed <= cache[j].last_accessed
            /\ SubSeq(cache', 1, Len(cache') - 1) = DelAt(cache, i)]_vars

\* The words of a question, lower-cased: the maximal runs without whitespace
WordStarts(s) == {i \in 1..Len(s) : ~IsSpace(s[i]) /\ (i = 1 \/ IsSpace(s[i - 1]))}

WordAt(s, i) ==
    LET stop == CHOOSE j \in i..Len(s) :
                    /\ \A k \in i..j : ~IsSpace(s[k])
                    /\ (j = Len(s) \/ IsSpace(s[j + 1]))
    IN  [k \in 1..(stop - i + 1) |-> LowerChar(s[i + k - 1])]

\* Equal after lower-casing, trimming and collapsing whitespace: the same
\* lower-cased words in the same order
SameQuestion(a, b) ==
    /\ Cardinality(WordStarts(a)) = Cardinality(WordStarts(b))
    /\ \A i \in WordStarts(a) : \E j \in WordStarts(b) :
        /\ Cardinality({k \in WordStarts(a) : k < i}) = Cardinality({k \in WordStarts(b) : k < j})
        /\ WordAt(a, i) = WordAt(b, j)

Occurrences(x, xs) == Cardinality({i \in 1..Len(xs) : xs[i] = x})

\* Permutations of each other, an absent filter being an empty one
SameFilter(a, b) ==
    /\ Len(a.v) = Len(b.v)
    /\ \A x \in {a.v[i] : i \in 1..Len(a.v)} \cup {b.v[i] : i \in 1..Len(b.v)} :
        Occurrences(x, a.v) = Occurrences(x, b.v)

SameRequest(r1, r2) ==
    /\ SameQuestion(r1.question, r2.question)
    /\ r1.top_k = r2.top_k
    /\ SameFilter(r1.paper_ids, r2.paper_ids)

\* C6: requests equal up to case, whitespace and filter order have one cache
\* key, and a response stored under one is returned by get under the other.
C6_EquivalentRequestsShareEntry ==
    [][LookupStep =>
        \A i \in 1..Len(cache) :
            SameRequest(EntryRequest(cache[i]), last'.request) =>
                /\ cache[i].key = RequestKey(last'.request)
                /\ now < cache[i].expires_at =>
                    /\ last'.cache_hit
                    /\ last'.kind = "ok"
                    /\ last'.body.v = Replay(cache[i].stored)]_vars

\* C6 witness: a hit on an entry stored under another spelling of the question
\* and another order of the filter
C6_Witness ==
    /\ last.op = "query" /\ last.cache_hit /\ last.kind = "ok"
    /\ \E i \in 1..Len(cache) :
        /\ cache[i].key = RequestKey(last.request)
        /\ cache[i].original_question # last.request.question
        /\ cache[i].paper_ids.v # last.request.paper_ids.v
        /\ cache[i].hit_count > 0

\* A step of delete_paper that reached the invalidation
InvalidationStep ==
    /\ CACHE_ENABLED
    /\ last'.op = "delete" /\ last'.status # 404
    /\ now' = now
    /\ hits' + misses' = hits + misses

\* C7: invalidate_by_paper(id) leaves no entry whose filter is absent, empty or
\* contains id, leaves every other entry as it was, and changes no counter.
C7_InvalidationScope ==
    [][InvalidationStep =>
        LET id == last'.paper_id
            Hit7(entry) == ~entry.paper_ids.some \/ entry.paper_ids.v = << >>
                                \/ InList(id, entry.paper_ids.v)
            Kept7(entry) == ~Hit7(entry)
        IN  /\ \A i \in 1..Len(cache') : ~Hit7(cache'[i])
            /\ cache' = SelectSeq(cache, Kept7)
            /\ hits' = hits /\ misses' = misses /\ evictions' = evictions]_vars

\* C8: every request the schema accepts is answered by a well-formed envelope
\* with confidence in [0,1], never by an HTTP error.
C8_AlwaysEnvelope ==
    (last.op = "query" /\ last.kind # "rejected") =>
        /\ last.kind = "ok"
        /\ last.body.some
        /\ last.body.v.confidence >= 0 /\ last.body.v.confidence <= 1000

\* C9: an exception raised inside query() is caught there and becomes the
\* error result (explanatory answer, no citation, no source, confidence 0.0,
\* the time elapsed); query() never raises.
C9_QueryCatchesFaults ==
    (last.op = "query" /\ last.ran) =>
        /\ ~last.pipeline.propagated
        /\ last.pipeline.raised =>
            /\ last.pipeline.result.answer = ERROR_ANSWER
            /\ last.pipeline.result.citations = << >>
            /\ last.pipeline.result.sources_used = << >>
            /\ last.pipeline.result.confidence = 0
            /\ last.pipeline.result.response_time = ElapsedTime
            /\ last.kind = "ok" => last.body.v.answer = ERROR_ANSWER

\* C9 witness: the fault was raised after the generator had answered
C9_Witness ==
    /\ last.op = "query" /\ last.ran /\ last.pipeline.raised
    /\ last.env.fault = "confidence"
    /\ Len(last.pipeline.calls) = 3
    /\ last.kind = "ok"

\* The cache raised during the request: get is called whenever the cache is
\* enabled, set after a lookup that was no hit
CacheFaulted ==
    /\ last.op = "query" /\ last.kind # "rejected" /\ CACHE_ENABLED
    /\ \/ last.env.cache_fault = "get"
       \/ last.env.cache_fault = "set" /\ ~last.cache_hit

\* C10: a fault of the cache's get or set does not abort the request: the
\* pipeline runs and its result is returned.
C10_CacheFaultSwallowed ==
    CacheFaulted =>
        /\ last.kind = "ok"
        /\ last.ran
        /\ last.body.v.answer = last.pipeline.result.answer

\* What the index returned to the last request, what the re-ranking made of
\* it, and the candidates left after the cut to top_k
FoundOf(out) ==
    search(out.env.answer, out.env.search_ok, out.request.top_k * 2,
           out.request.paper_ids, SCORE_THRESHOLD)

RerankedOf(out) == _filter_and_rerank(FoundOf(out), out.request.question)

Called(out, op) == \E i \in 1..Len(out.pipeline.calls) : out.pipeline.calls[i].op = op

\* The last request ran the pipeline while the embedder failed
EmbedFailed == last.op = "query" /\ last.ran /\ ~last.env.embed_ok

\* C11: a failure of the embedder ends the request: no vector stands in for
\* the embedding, the index is not searched, and the result is degraded
\* (explanatory text, no citation, confidence 0.0).
C11_EmbedFailureFatal ==
    EmbedFailed =>
        /\ ~Called(last, "search")
        /\ last.pipeline.result.answer \in {ERROR_ANSWER, FALLBACK_ANSWER}
        /\ last.pipeline.result.citations = << >>
        /\ last.pipeline.result.confidence = 0

\* The last request ran the pipeline, retrieval left candidates and the
\* generator failed
GeneratorFailed ==
    /\ last.op = "query" /\ last.ran /\ ~last.env.gen_ok
    /\ last.env.fault = "none"
    /\ RerankedOf(last) # << >>

\* C12: when retrieval left candidates and the generator fails, query()
\* raises nothing and returns the error text as the answer, the citations of
\* the final candidates and the confidence computed from them; the request
\* is answered as it would be with a working generator.
C12_GeneratorFaultKeepsRetrieval ==
    GeneratorFailed =>
        LET final == SubSeq(RerankedOf(last), 1, Min2(last.request.top_k, Len(RerankedOf(last))))
            working == [last.env EXCEPT !.gen_ok = TRUE]
            other == query_papers([Q EXCEPT !.cache = << >>], CACHE_ENABLED,
                                  last.request, working, now).out
        IN  /\ ~last.pipeline.raised /\ ~last.pipeline.propagated
            /\ last.pipeline.result.answer = GENERATOR_ERROR_ANSWER
            /\ Len(last.pipeline.result.citations) = Len(final)
            /\ \A i \in 1..Len(final) :
                /\ last.pipeline.result.citations[i].paper_title = final[i].payload.title
                /\ last.pipeline.result.citations[i].relevance_score
                        = RoundDiv(final[i].boosted_score, 100)
            /\ last.pipeline.result.confidence = _calculate_confidence(final)
            /\ last.kind = other.kind
            /\ last.kind = "ok" =>
                /\ last.body.v.answer = GENERATOR_ERROR_ANSWER
                /\ last.body.v.citations = other.body.v.citations
                /\ last.body.v.confidence = other.body.v.confidence

\* C12 witness: the generator failed and the envelope carries a citation and a
\* confidence above zero
C12_Witness ==
    /\ GeneratorFailed /\ last.kind = "ok"
    /\ last.body.v.citations # << >>
    /\ last.body.v.confidence > 0

\* C13: a request whose retrieval yields no candidate returns the fallback
\* answer, no citation, no source, confidence 0.0 and cached=false, and the
\* generator is not called.
C13_NoCandidatesFallback ==
    (last.op = "query" /\ last.ran /\ RerankedOf(last) = << >>) =>
        /\ last.pipeline.result.answer = FALLBACK_ANSWER
        /\ last.pipeline.result.citations = << >>
        /\ last.pipeline.result.sources_used = << >>
        /\ last.pipeline.result.confidence = 0
        /\ ~Called(last, "generate")
        /\ last.kind = "ok" =>
            /\ last.body.v.answer = FALLBACK_ANSWER
            /\ last.body.v.citations = << >>
            /\ last.body.v.sources_used = << >>
            /\ last.body.v.confidence = 0
            /\ ~last.body.v.cached

\* C13 witness: the index was searched, returned nothing, and the fallback
\* envelope was answered
C13_Witness ==
    /\ last.op = "query" /\ last.ran /\ last.kind = "ok"
    /\ Called(last, "search") /\ FoundOf(last) = << >>
    /\ last.env.search_ok
    /\ last.body.v.answer = FALLBACK_ANSWER

\* C15: every citation of a result query() returns has relevance_score in
\* [0,1] (the raw scores of the index lie in [0,1]).
C15_CitationScoresInRange ==
    (last.op = "query" /\ last.ran) =>
        \A i \in 1..Len(last.pipeline.result.citations) :
            /\ last.pipeline.result.citations[i].relevance_score >= 0
            /\ last.pipeline.result.citations[i].relevance_score <= 1000

\* C18: the candidates used for the citations and the confidence are the
\* first top_k of the re-ranked list, so a result has at most top_k citations.
C18_AtMostTopK ==
    (last.op = "query" /\ last.ran) =>
        /\ Len(last.pipeline.result.citations) <= last.request.top_k
        /\ ~last.pipeline.raised =>
            LET reranked == RerankedOf(last)
                all == _prepare_context(reranked)
                n == Len(last.pipeline.result.citations)
            IN  /\ n = Min2(last.request.top_k, Len(reranked))
                /\ \A i \in 1..n : last.pipeline.result.citations[i] = all[i]
                /\ last.pipeline.result.confidence
                        = _calculate_confidence(SubSeq(reranked, 1, n))

\* C18 witness: the re-ranking left more candidates than top_k and the result
\* carries top_k citations
C18_Witness ==
    /\ last.op = "query" /\ last.ran /\ ~last.pipeline.raised
    /\ Len(RerankedOf(last)) > last.request.top_k
    /\ Len(last.pipeline.result.citations) = last.request.top_k

\* 0.6 * relevance + 0.2 * consistency + 0.1 * coverage + 0.1 * diversity of
\* the candidates, in 1/6000000 (scores are in 1/100000):
\*   relevance   = mean of the first three scores
\*   consistency = 1 - min(spread, 0.3) / 0.3 of the first three scores, 0.5
\*                 with fewer than three candidates
\*   coverage    = min(count / 5, 1)
\*   diversity   = min(distinct titles / 3, 1)
WeightedSum(candidates) ==
    LET n == Len(candidates)
        k == IF n < 3 THEN n ELSE 3
        s == [i \in 1..k |-> candidates[i].boosted_score]
        spread == CHOOSE d \in {s[i] - s[j] : i, j \in 1..k} :
                    \A i, j \in 1..k : d >= s[i] - s[j]
        relevance == (36 * SumSeq(s)) \div k
        consistency == IF n >= 3
                       THEN 40 * (30000 - (IF spread < 30000 THEN spread ELSE 30000))
                       ELSE 600000
        coverage == IF n >= 5 THEN 600000 ELSE 120000 * n
        titles == Cardinality({candidates[i].payload.title : i \in 1..n})
        diversity == IF titles >= 3 THEN 600000 ELSE 200000 * titles
    IN  relevance + consistency + coverage + diversity

\* C14: the confidence lies in [0,1]; for candidates it is the weighted sum
\* clipped to [0,1] (rounded to 3 decimals), also with boosted scores above 1;
\* for no candidate it is 0.0.
C14_ConfidenceInUnitInterval ==
    last.op = "confidence" =>
        /\ last.confidence >= 0 /\ last.confidence <= 1000
        /\ last.search_results = << >> => last.confidence = 0
        /\ last.search_results # << >> =>
            LET w == WeightedSum(last.search_results)
            IN  last.confidence =
                    RoundDiv(IF w > 6000000 THEN 6000000 ELSE IF w < 0 THEN 0 ELSE w, 6000)

\* C14 witness: candidates boosted above 1 whose weighted sum is above 1
C14_Witness ==
    /\ last.op = "confidence" /\ last.search_results # << >>
    /\ last.search_results[1].boosted_score > 100000
    /\ WeightedSum(last.search_results) > 6000000
    /\ last.confidence = 1000

\* The fingerprint of a text: its first 100 characters, case-folded
CaseFoldedPrefix(text) == Lower(SubSeq(text, 1, IF Len(text) < 100 THEN Len(text) ELSE 100))

\* C16: no two candidates of the re-ranked list share a fingerprint, and each
\* is the first of the input with its fingerprint, hence one of highest raw
\* score among them when the input is sorted by descending score.
C16_DedupKeepsFirst ==
    last.op = "rerank" =>
        LET fp(c) == CaseFoldedPrefix(c.payload.text)
        IN  /\ \A i, j \in 1..Len(last.reranked) :
                i # j => fp(last.reranked[i]) # fp(last.reranked[j])
            /\ \A i \in 1..Len(last.reranked) :
                \E k \in 1..Len(last.found) :
                    /\ last.found[k].id = last.reranked[i].id
                    /\ \A m \in 1..(k - 1) : fp(last.found[m]) # fp(last.reranked[i])
                    /\ \A m \in 1..Len(last.found) :
                        fp(last.found[m]) = fp(last.reranked[i])
                            => last.found[m].score <= last.reranked[i].score

\* C16 witness: two texts longer than 100 characters that differ only after
\* the 100th, and two that differ only in case, were returned; the first of
\* each pair survived
C16_Witness ==
    /\ last.op = "rerank"
    /\ \E k, m \in 1..Len(last.found) :
        /\ k < m /\ Len(last.found[k].payload.text) > 100
        /\ last.found[k].payload.text # last.found[m].payload.text
        /\ CaseFoldedPrefix(last.found[k].payload.text) = CaseFoldedPrefix(last.found[m].payload.text)
        /\ \E i \in 1..Len(last.reranked) : last.reranked[i].id = last.found[k].id
    /\ \E k, m \in 1..Len(last.found) :
        /\ k < m /\ last.found[k].payload.text # last.found[m].payload.text
        /\ Len(last.found[k].payload.text) < 100
        /\ CaseFoldedPrefix(last.found[k].payload.text) = CaseFoldedPrefix(last.found[m].payload.text)
        /\ \E i \in 1..Len(last.reranked) : last.reranked[i].id = last.found[k].id

\* The section a candidate is counted under: its section, the candidates
\* without one being counted together under "Other"
CountedSection(c) == IF c.payload.section = "<missing>" THEN "Other" ELSE c.payload.section

\* The deduplicated candidates of the last re-ranking, sorted by boosted score
SortedOf(out) == SortByBoost(Boost(Dedup(out.found, {}), out.question))

\* The positions of the sorted list that the re-ranking admitted
AdmittedOf(out) ==
    LET sorted == SortedOf(out)
    IN  {k \in 1..Len(sorted) :
            \E i \in 1..Len(out.reranked) : out.reranked[i].id = sorted[k].id}

\* C17: walking the sorted list, a candidate is admitted exactly when fewer
\* than 3 admitted candidates before it have its section; so no section occurs
\* more than 3 times in the output.
C17_SectionCap ==
    last.op = "rerank" =>
        LET sorted == SortedOf(last)
            admitted == AdmittedOf(last)
        IN  /\ \A k \in 1..Len(sorted) :
                k \in admitted <=>
                    Cardinality({j \in admitted : j < k /\
                        CountedSection(sorted[j]) = CountedSection(sorted[k])}) < 3
            /\ last.reranked = Pick(sorted, admitted)
            /\ \A i \in 1..Len(last.reranked) :
                Cardinality({j \in 1..Len(last.reranked) :
                    CountedSection(last.reranked[j]) = CountedSection(last.reranked[i])}) <= 3
            /\ (\A i, j \in 1..Len(sorted) : CountedSection(sorted[i]) = CountedSection(sorted[j]))
                    => Len(last.reranked) <= 3

\* C17 witness: a fourth candidate of a section was dropped although it
\* outranks an admitted candidate of another section
C17_Witness ==
    /\ last.op = "rerank"
    /\ LET sorted == SortedOf(last)
           admitted == AdmittedOf(last)
       IN  \E k, m \in 1..Len(sorted) :
            /\ k < m /\ k \notin admitted /\ m \in admitted
            /\ sorted[k].boosted_score > sorted[m].boosted_score

\* C17 second case: every candidate has one section and more than 3 were found
C17_WitnessOneSection ==
    /\ last.op = "rerank"
    /\ LET sorted == SortedOf(last)
       IN  /\ Len(sorted) > 3 /\ Len(last.reranked) = 3
           /\ \A i \in 1..Len(sorted) : sorted[i].payload.section \in {"<missing>", "Other"}

(***************************************************************************)
(* C19: under concurrent requests the cache operations get, set (with      *)
(* eviction), invalidate_by_paper, clear and cleanup_expired exclude each  *)
(* other: at most one handler is inside a cache operation, every operation *)
(* that returns has done to the cache, and returned, what the whole        *)
(* operation does to the cache it found when it began, and a get that hits *)
(* returns the payload of a whole entry of that cache.                     *)
(***************************************************************************)
CacheOperations == {"get", "set", "invalidate_by_paper", "clear", "cleanup_expired"}

\* The operation of record l run as a whole on the cache it found
WholeOperation(l) ==
    CASE l.op = "get" ->
            get(l.before, l.request.question, l.request.top_k, l.request.paper_ids, l.t)
      [] l.op = "set" ->
            [q |-> set(l.before, l.request.question, l.response.v, l.request.top_k,
                       l.request.paper_ids, l.t),
             ret |-> None]
      [] l.op = "invalidate_by_paper" ->
            [q |-> invalidate_by_paper(l.before, l.paper_id), ret |-> None]
      [] l.op = "clear" ->
            [q |-> clear(l.before), ret |-> None]
      [] l.op = "cleanup_expired" ->
            LET r == cleanup_expired(l.before, l.t)
            IN  [q |-> r.q, ret |-> Some(r.ret)]

C19_CacheOpsMutuallyExclusive ==
    /\ Cardinality({i \in 1..Len(loop.tasks) : loop.tasks[i].pc \in InsideCacheOp}) <= 1
    /\ last.op \in CacheOperations =>
        /\ last.after = WholeOperation(last).q
        /\ last.ret = WholeOperation(last).ret
    /\ (last.op = "get" /\ last.ret.some) =>
        \E i \in 1..Len(last.before.cache) :
            /\ last.before.cache[i].key = RequestKey(last.request)
            /\ last.before.cache[i].response = last.ret.v
            /\ last.before.cache[i].stored # None

\* A set that evicted returned while another request was in flight
C19_Witness ==
    /\ last.op = "set"
    /\ last.after.evictions > last.before.evictions
    /\ last.others >= 1

\* A get that hit returned while another request was in flight
C19_WitnessHit ==
    /\ last.op = "get"
    /\ last.ret.some
    /\ last.others >= 1

\* Two handlers of query_papers with the same cache key are both between the
\* miss of their get and the store of their set
PastMiss == {"pipeline", "set:full", "evict:empty", "evict:min", "evict:del",
             "evict:count", "set:store"}

BothMissBeforeEitherPopulates ==
    \E i, j \in 1..Len(loop.tasks) :
        /\ i # j
        /\ loop.tasks[i].cache_key = loop.tasks[j].cache_key
        /\ loop.tasks[i].pc \in PastMiss
        /\ loop.tasks[j].pc \in PastMiss

\* Two handlers of query_papers with the same cache key are in flight and
\* the first of them has missed
IdenticalQueriesInFlight ==
    \E i, j \in 1..Len(loop.tasks) :
        /\ i # j
        /\ loop.tasks[i].cache_key = loop.tasks[j].cache_key
        /\ loop.tasks[i].pc \in PastMiss
        /\ loop.tasks[j].pc = "get:in"

\* A question shorter than the minimum length, or a top_k outside 1..20
InvalidRequest(request) ==
    \/ Len(request.question) < MIN_LENGTH
    \/ request.top_k \notin TOP_K_MIN..TOP_K_MAX

\* C21: a request whose question is shorter than 3 characters or whose top_k
\* lies outside 1..20 is rejected before the pipeline starts: the handler makes
\* no cache lookup, the entries and the hit, miss and eviction counters stay
\* as they were, and no collaborator is called.
C21_InvalidRejectedBeforePipeline ==
    [][(last'.op = "query" /\ InvalidRequest(last'.request)) =>
        /\ last'.kind = "rejected"
        /\ last'.status = 422
        /\ ~last'.body.some
        /\ ~last'.cache_hit
        /\ ~last'.ran
        /\ last'.pipeline.calls = << >>
        /\ cache' = cache
        /\ hits' = hits /\ misses' = misses /\ evictions' = evictions]_vars

\* C21 witness: a request with top_k above 20 was rejected while the store
\* held an entry it would have hit with a valid top_k
C21_Witness ==
    /\ last.op = "query" /\ last.kind = "rejected"
    /\ last.request.top_k > TOP_K_MAX
    /\ CACHE_ENABLED
    /\ \E i \in 1..Len(cache) :
        /\ cache[i].original_question = last.request.question
        /\ cache[i].paper_ids = last.request.paper_ids
        /\ now < cache[i].expires_at

\* Calling clear, or cleanup_expired at one instant, on the store twice
ClearedTwice == clear(clear(Q))

SweptOnce == cleanup_expired(Q, now)

SweptTwice == cleanup_expired(SweptOnce.q, now)

\* C22: the cache management operations are idempotent: clear called twice,
\* or cleanup_expired called twice with no time passing in between, leaves the
\* store as one call does, the second cleanup_expired returning 0; and
\* get_stats changes no entry and no counter.
C22_ManagementIdempotent ==
    /\ [](/\ ClearedTwice = clear(Q)
          /\ SweptTwice.q = SweptOnce.q
          /\ SweptTwice.ret = 0)
    /\ [][last'.op = "stats" =>
            /\ cache' = cache
            /\ hits' = hits /\ misses' = misses /\ evictions' = evictions]_vars

\* C22 witness: a sweep has just removed an expired entry and left one that
\* has not expired, after lookups were counted
C22_Witness ==
    /\ last.op = "cleanup" /\ last.kind = "ok"
    /\ last.body.v >= 1
    /\ cache # << >>
    /\ misses > 0
    /\ SweptOnce.ret = 0

\* The statements of clear after self.cache.clear(): the entries are dropped,
\* the counters not yet all reset
InsideClear == {"clear:hits", "clear:misses", "clear:evictions"}

\* C23: when clear() returns the store holds no entry and the hit, miss and
\* eviction counters are zero, and while the entries are dropped but the
\* counters not yet all reset the clearing handler is the one the loop runs:
\* no other operation runs on, or reads, the half-cleared store.
C23_ClearAtomic ==
    /\ last.op = "clear" =>
        /\ last.after.cache = << >>
        /\ last.after.hits = 0 /\ last.after.misses = 0 /\ last.after.evictions = 0
    /\ \A i \in 1..Len(loop.tasks) :
        loop.tasks[i].pc \in InsideClear => loop.running = i

\* C23 witness: clear returned from a store that held an entry and a counted
\* miss, while another request was in flight
C23_Witness ==
    /\ last.op = "clear"
    /\ last.before.cache # << >>
    /\ last.before.misses > 0
    /\ last.others >= 1
    /\ cache = << >> /\ hits = 0 /\ misses = 0 /\ evictions = 0

\* The elements of xs, each once, in the order of their first appearance
FirstAppearances(xs) ==
    LET first == {i \in 1..Len(xs) : \A j \in 1..(i - 1) : xs[j] # xs[i]}
        F[n \in 0..Len(xs)] ==
            IF n = 0 THEN << >>
            ELSE IF n \in first THEN Append(F[n - 1], xs[n]) ELSE F[n - 1]
    IN  F[Len(xs)]

CitationTitles(result) == [i \in 1..Len(result.citations) |-> result.citations[i].paper_title]

\* C24: sources_used of a completed result holds each paper title of the
\* citations exactly once, in the order of the titles' first appearance in the
\* citation list.
C24_SourcesInFirstAppearanceOrder ==
    (last.op = "query" /\ last.ran /\ ~last.pipeline.raised) =>
        last.pipeline.result.sources_used = FirstAppearances(CitationTitles(last.pipeline.result))

\* The candidates the citations of the last request are built from
FinalCandidatesOf(out) == Prefix(RerankedOf(out), out.request.top_k)

\* Citation c is the one of the i-th final candidate and says so
BuiltFrom(c, candidate, i) ==
    /\ c.paper_title = candidate.payload.title
    /\ c.filename = candidate.payload.filename
    /\ c.page = candidate.payload.page
    /\ c.chunk_text = ChunkPreview(candidate.payload.text)
    /\ "reference_number" \in DOMAIN c
    /\ c.reference_number = i

\* C25: the citations are derived 1:1 and in order from the final candidate
\* list: one citation per final candidate, the i-th built from the i-th
\* candidate and carrying reference_number i, in the result of the pipeline
\* and in the envelope the caller receives.
C25_CitationsMirrorCandidates ==
    (last.op = "query" /\ last.ran /\ ~last.pipeline.raised) =>
        LET final == FinalCandidatesOf(last)
            made == last.pipeline.result.citations
        IN  /\ Len(made) = Len(final)
            /\ \A i \in 1..Len(made) : BuiltFrom(made[i], final[i], i)
            /\ last.kind = "ok" =>
                /\ Len(last.body.v.citations) = Len(final)
                /\ \A i \in 1..Len(final) : BuiltFrom(last.body.v.citations[i], final[i], i)

\* The part of C25 about the result of the pipeline alone
CitationsMirrorCandidatesInResult ==
    (last.op = "query" /\ last.ran /\ ~last.pipeline.raised) =>
        LET final == FinalCandidatesOf(last)
            made == last.pipeline.result.citations
        IN  /\ Len(made) = Len(final)
            /\ \A i \in 1..Len(made) : BuiltFrom(made[i], final[i], i)

\* The answers of a request that ended at the zero-candidate short-circuit or
\* in a fault converted by query()
TerminalAnswers == {FALLBACK_ANSWER, ERROR_ANSWER}

\* C26: a request that ends at the zero-candidate short-circuit, or in a
\* fault that query() converts, does not populate the cache: the store never
\* holds a fallback or error result, and no hit replays one.
C26_TerminalResultsNotCached ==
    /\ \A i \in 1..Len(cache) : cache[i].stored.answer \notin TerminalAnswers
    /\ (last.op = "query" /\ last.cache_hit /\ last.kind = "ok") =>
            last.body.v.answer \notin TerminalAnswers

\* A hit replays a fallback or error result
TerminalResultReplayed ==
    /\ last.op = "query" /\ last.cache_hit /\ last.kind = "ok"
    /\ last.body.v.answer \in TerminalAnswers
    /\ last.body.v.cached

\* C27: serving a hit leaves the payload of the entry as the populating set
\* stored it, in every field, cached and response_time included.
C27_HitLeavesPayloadUnchanged ==
    \A i \in 1..Len(cache) : cache[i].response = cache[i].stored

\* An entry that was hit holds a payload marked cached with response_time 0.001
StoredPayloadMarkedCached ==
    \E i \in 1..Len(cache) :
        /\ cache[i].hit_count > 0
        /\ ~cache[i].stored.cached
        /\ cache[i].response.cached
        /\ cache[i].response.response_time = CACHE_HIT_TIME
        /\ cache[i].stored.response_time = ElapsedTime

\* The filter of the entry is absent, empty or contains paper id
CoversPaper(entry, id) ==
    \/ ~entry.paper_ids.some
    \/ entry.paper_ids.v = << >>
    \/ \E k \in 1..Len(entry.paper_ids.v) : entry.paper_ids.v[k] = id

\* C28: once delete_paper(id) has completed, no later query is answered from
\* an entry computed before the deletion whose filter is absent, empty or
\* contains id.  Here for the query that follows the deletion at once: the
\* entries it can hit are those the deletion left.
C28_NoStaleAnswerAfterDelete ==
    [][(/\ CACHE_ENABLED
        /\ last.op = "delete" /\ last.kind = "ok"
        /\ last'.op = "query" /\ last'.cache_hit) =>
            LET i == KeyIndex(cache, RequestKey(last'.request))
            IN  ~CoversPaper(cache[i], last.paper_id)]_vars

\* The same for the entries whose filter is absent or contains id
NoStaleAnswerFromListedFilter ==
    [][(/\ CACHE_ENABLED
        /\ last.op = "delete" /\ last.kind = "ok"
        /\ last'.op = "query" /\ last'.cache_hit) =>
            LET i == KeyIndex(cache, RequestKey(last'.request))
            IN  \/ ~CoversPaper(cache[i], last.paper_id)
                \/ cache[i].paper_ids = Some(<< >>)]_vars

\* C29: the expiry of an entry is the one its set fixed, the time of the set
\* plus ttl_seconds, and hits do not move it: a get returns a payload only
\* less than ttl_seconds after the latest set of the key, whatever the number
\* of hits in between.
C29_ExpiryFixedBySet ==
    /\ [](\A i \in 1..Len(cache) : cache[i].expires_at = cache[i].created_at + ttl_seconds)
    /\ [][hits' = hits + 1 =>
            LET i == KeyIndex(cache, RequestKey(last'.request))
                j == KeyIndex(cache', RequestKey(last'.request))
            IN  /\ i # 0 /\ j # 0
                /\ now - cache[i].created_at < ttl_seconds
                /\ cache'[j].expires_at = cache[i].expires_at
                /\ cache'[j].created_at = cache[i].created_at]_vars

\* C29 witness: a second hit on an entry, later than its set and before its
\* expiry, which is the one the set fixed
C29_Witness ==
    /\ last.op = "query" /\ last.cache_hit
    /\ \E i \in 1..Len(cache) :
        /\ cache[i].key = RequestKey(last.request)
        /\ cache[i].hit_count >= 2
        /\ cache[i].last_accessed > cache[i].created_at
        /\ cache[i].last_accessed = now
        /\ cache[i].expires_at = cache[i].created_at + ttl_seconds

\* C30: get returns a payload only if a set stored it for a request with the
\* same normalized question, the same top_k and the same sorted filter as
\* those of the get: the entry a hit reads was stored for such a request and
\* its payload is the one replayed, and two entries of the store are never
\* for requests equal in all three.
C30_HitOnlyOnEqualRequest ==
    /\ [](\A i, j \in 1..Len(cache) :
            i # j => ~SameRequest(EntryRequest(cache[i]), EntryRequest(cache[j])))
    /\ [][hits' = hits + 1 =>
            /\ Len(cache') = Len(cache)
            /\ \E i \in 1..Len(cache) : cache'[i].hit_count = cache[i].hit_count + 1
            /\ \A i \in 1..Len(cache) :
                cache'[i].hit_count = cache[i].hit_count + 1 =>
                    /\ SameQuestion(cache[i].original_question, last'.request.question)
                    /\ cache[i].top_k = last'.request.top_k
                    /\ SameFilter(cache[i].paper_ids, last'.request.paper_ids)
                    /\ last'.kind = "ok" => last'.body.v = Replay(cache[i].stored)]_vars

\* C30 witness: a hit while the store also holds an entry for the same
\* question and filter with another top_k
C30_Witness ==
    /\ last.op = "query" /\ last.cache_hit /\ last.kind = "ok"
    /\ \E i, j \in 1..Len(cache) :
        /\ cache[i].key = RequestKey(last.request)
        /\ cache[i].hit_count > 0
        /\ cache[j].hit_count = 0
        /\ SameQuestion(cache[j].original_question, last.request.question)
        /\ SameFilter(cache[j].paper_ids, last.request.paper_ids)
        /\ cache[j].top_k # last.request.top_k

\* The entries of the store stored for a request equal to `request`
EntriesFor(request) == {i \in 1..Len(cache) : SameRequest(EntryRequest(cache[i]), request)}

\* C31: get has three outcomes.  Key found and unexpired: hits and the
\* entry's hit_count each grow by 1, last_accessed is updated, the payload is
\* returned.  Key found but expired: the entry is deleted and absent is
\* reported.  Key not found: misses grows by 1, absent is reported and the
\* entries are unchanged.
C31_GetThreeOutcomes ==
    \A request \in ValidRequests :
        LET g == get(Q, request.question, request.top_k, request.paper_ids, now)
            found == EntriesFor(request)
        IN  /\ Cardinality(found) <= 1
            /\ \A i \in found :
                IF now < cache[i].expires_at
                THEN /\ g.ret = Some(cache[i].response)
                     /\ g.q.hits = hits + 1
                     /\ g.q.misses = misses
                     /\ Len(g.q.cache) = Len(cache)
                     /\ g.q.cache[i].hit_count = cache[i].hit_count + 1
                     /\ g.q.cache[i].last_accessed = now
                     /\ \A j \in 1..Len(cache) : j # i => g.q.cache[j] = cache[j]
                ELSE /\ g.ret = None
                     /\ g.q.hits = hits
                     /\ g.q.cache = SubSeq(cache, 1, i - 1) \o SubSeq(cache, i + 1, Len(cache))
            /\ found = {} =>
                /\ g.ret = None
                /\ g.q.misses = misses + 1
                /\ g.q.hits = hits
                /\ g.q.cache = cache
            /\ g.q.evictions = evictions

\* C31 witness: after a hit later than the last access, the store holds an
\* expired entry and an unexpired one, and a request has no entry
C31_Witness ==
    /\ last.op = "query" /\ last.cache_hit
    /\ \E i, j \in 1..Len(cache) :
        /\ now >= cache[i].expires_at
        /\ now < cache[j].expires_at
        /\ cache[j].hit_count > 0
        /\ cache[j].last_accessed > cache[j].created_at
    /\ \E request \in ValidRequests : EntriesFor(request) = {}

\* set, invalidate_by_paper and cleanup_expired leave hits and misses
CountersKeptBy(q) == q.hits = hits /\ q.misses = misses

\* C32: hits + misses is the number of calls of get since construction or
\* the last clear: each get adds exactly 1 to exactly one of the two counters,
\* the lookup of an expired entry counting as a miss, and set,
\* invalidate_by_paper, cleanup_expired and get_stats change neither.
C32_HitsPlusMissesCountGets ==
    /\ [](/\ hits + misses = gets
          /\ \A request \in ValidRequests :
                CountersKeptBy(set(Q, request.question, last.pipeline.result,
                                   request.top_k, request.paper_ids, now))
          /\ \A paper_id \in PaperIds : CountersKeptBy(invalidate_by_paper(Q, paper_id))
          /\ CountersKeptBy(cleanup_expired(Q, now).q))
    /\ [][/\ gets' = gets + 1 =>
                /\ \/ hits' = hits + 1 /\ misses' = misses
                   \/ hits' = hits /\ misses' = misses + 1
                /\ last'.lookup = "expired" => misses' = misses + 1
          /\ gets' = gets => (hits' = hits /\ misses' = misses)]_vars

\* C32 witness: a hit and two misses counted since the last clear, time has
\* passed, and a sweep, an invalidation or a stats request has run since
C32_Witness ==
    /\ hits > 0 /\ misses > 1
    /\ hits + misses = gets
    /\ last.op \in {"cleanup", "delete", "stats"}
    /\ now >= ttl_seconds
    /\ Len(cache) = 1
    /\ cache[1].created_at >= ttl_seconds

\* C33: set under a key that is present replaces that entry alone (the new
\* payload, expires_at = now + TTL, hit_count 0): no other entry is removed
\* and evictions is unchanged, also when the store is at capacity.
C33_SetReplacesInPlace ==
    \A request \in ValidRequests :
        LET i == KeyIndex(cache, RequestKey(request))
            s == set(Q, request.question, last.pipeline.result, request.top_k,
                     request.paper_ids, now)
        IN  i # 0 =>
                /\ s.evictions = evictions
                /\ Len(s.cache) = Len(cache)
                /\ \A j \in 1..Len(cache) : j # i => s.cache[j] = cache[j]
                /\ s.cache[i].key = cache[i].key
                /\ s.cache[i].response = last.pipeline.result
                /\ s.cache[i].expires_at = now + ttl_seconds
                /\ s.cache[i].hit_count = 0

\* The same below capacity
SetReplacesInPlaceBelowCapacity ==
    \A request \in ValidRequests :
        LET i == KeyIndex(cache, RequestKey(request))
            s == set(Q, request.question, last.pipeline.result, request.top_k,
                     request.paper_ids, now)
        IN  (i # 0 /\ Len(cache) < max_size) =>
                /\ s.evictions = evictions
                /\ Len(s.cache) = Len(cache)
                /\ \A j \in 1..Len(cache) : j # i => s.cache[j] = cache[j]
                /\ s.cache[i].key = cache[i].key
                /\ s.cache[i].response = last.pipeline.result
                /\ s.cache[i].expires_at = now + ttl_seconds
                /\ s.cache[i].hit_count = 0

\* The entries of the store that a step removed: their keys are gone afterwards
RemovedByStep ==
    {i \in 1..Len(cache) : KeyIndex(cache', cache[i].key) = 0}

\* C34: when set evicts because the store is at capacity, the entry it evicts
\* is not an unexpired one while an expired entry is still in the store.
C34_EvictsExpiredFirst ==
    [][(last'.op = "set" /\ evictions' = evictions + 1) =>
          \A i \in RemovedByStep :
              now < cache[i].expires_at =>
                  \A j \in 1..Len(cache) : now < cache[j].expires_at]_vars

\* A set at capacity evicted an entry while every entry was unexpired
EvictedWithNoneExpired ==
    /\ last.op = "set"
    /\ evictions > 0
    /\ Len(cache) = max_size
    /\ \A i \in 1..Len(cache) : cache[i].created_at = now \/ now < cache[i].expires_at

\* C35: in a sequence of gets and sets, added calls of cleanup_expired change
\* the return value of no get: every get returns what the same get returns in
\* the store that received the same gets and sets and no sweep.
C35_SweepsChangeNoGet ==
    last.op = "get" => last.ret = last.plain_ret

\* The same while the store without sweeps has evicted nothing
SweepsChangeNoGetWithoutEviction ==
    (last.op = "get" /\ last.plain.evictions = 0) => last.ret = last.plain_ret

\* The entries of the store that have expired at this instant
ExpiredNow == {i \in 1..Len(cache) : now >= cache[i].expires_at}

\* C36: cleanup_expired removes exactly the entries with now >= expires_at and
\* returns their number; the unexpired entries stay as they are, in their
\* order, and hits, misses and evictions are unchanged.
C36_SweepRemovesExactlyExpired ==
    [][(last'.op = "cleanup" /\ last'.kind = "ok" /\ now' = now) =>
          /\ \A i \in 1..Len(cache) :
                IF i \in ExpiredNow
                THEN KeyIndex(cache', cache[i].key) = 0
                ELSE /\ KeyIndex(cache', cache[i].key) # 0
                     /\ cache'[KeyIndex(cache', cache[i].key)] = cache[i]
          /\ Len(cache') = Len(cache) - Cardinality(ExpiredNow)
          /\ \A i, j \in 1..Len(cache) \ ExpiredNow :
                i < j => KeyIndex(cache', cache[i].key) < KeyIndex(cache', cache[j].key)
          /\ last'.body = Some(Cardinality(ExpiredNow))
          /\ hits' = hits /\ misses' = misses /\ evictions' = evictions]_vars

\* C36 witness: a sweep returned 1 and left the one entry that has not
\* expired, the counters standing at what the lookups made them
C36_Witness ==
    /\ last.op = "cleanup" /\ last.kind = "ok"
    /\ last.body = Some(1)
    /\ Len(cache) = 1
    /\ now < cache[1].expires_at
    /\ hits > 0 /\ misses > 0

FailedUploadKeptEntries ==
    /\ last.op = "upload" /\ last.status # 200
    /\ cache # << >>
    /\ hits > 0

\* The collaborators in the order query() reaches them
CollaboratorOrder == <<"embed", "search", "generate">>

\* The entries a step stored: their key was absent, or its entry had expired
PopulatedByStep ==
    {i \in 1..Len(cache') :
        LET k == KeyIndex(cache, cache'[i].key)
        IN  k = 0 \/ now >= cache[k].expires_at}

\* C38: on a cache miss the collaborators are called in the order embed,
\* vector search, generate, each at most once per request, also when one of
\* them fails (no call is repeated), the search receiving what embed returned;
\* and an entry enters the cache only in a request whose pipeline has run and
\* returned, the entry holding the result it returned.
C38_CollaboratorsOnceInOrder ==
    /\ [](last.op = "query" =>
            LET calls == last.pipeline.calls
            IN  /\ Len(calls) <= Len(CollaboratorOrder)
                /\ \A i \in 1..Len(calls) : calls[i].op = CollaboratorOrder[i]
                /\ Len(calls) >= 2 => calls[2].arg = embed_text(last.env.embed_ok)
                /\ last.ran => Len(calls) >= 2
                /\ ~last.ran => calls = << >>)
    /\ [][last'.op = "query" =>
            \A i \in PopulatedByStep :
                /\ last'.ran
                /\ ~last'.cache_hit
                /\ ~last'.pipeline.propagated
                /\ cache'[i].stored = WithCached(last'.pipeline.result, FALSE,
                                                 last'.pipeline.result.response_time)]_vars

\* C38 witness: a request missed, the generator failed, each collaborator was
\* called once, and the entry stored holds the result of that run
C38_Witness ==
    /\ last.op = "query" /\ last.ran
    /\ last.lookup = "miss"
    /\ ~last.env.gen_ok
    /\ Len(last.pipeline.calls) = 3
    /\ \E i \in 1..Len(cache) :
          /\ cache[i].key = RequestKey(last.request)
          /\ cache[i].stored = WithCached(last.pipeline.result, FALSE,
                                          last.pipeline.result.response_time)

\* The position of the candidate `id` in the list the index returned
FoundPosition(out, id) == CHOOSE k \in 1..Len(out.found) : out.found[k].id = id

\* C39: the re-ranked list is ordered by non-increasing boosted_score, and two
\* candidates of equal boosted_score stand in the order they had in the list
\* the index returned, which is descending by raw score.
C39_RerankedOrder ==
    last.op = "rerank" =>
        /\ \A k \in 1..(Len(last.found) - 1) : last.found[k].score >= last.found[k + 1].score
        /\ \A i, j \in 1..Len(last.reranked) :
            i < j =>
                /\ last.reranked[i].boosted_score >= last.reranked[j].boosted_score
                /\ last.reranked[i].boosted_score = last.reranked[j].boosted_score =>
                       FoundPosition(last, last.reranked[i].id)
                           < FoundPosition(last, last.reranked[j].id)

\* C39 witness: the boost moved a candidate ahead of one the index ranked
\* higher, and two candidates of equal boosted_score follow each other
C39_Witness ==
    /\ last.op = "rerank"
    /\ \E i, j \in 1..Len(last.reranked) :
          /\ i < j
          /\ FoundPosition(last, last.reranked[i].id) > FoundPosition(last, last.reranked[j].id)
    /\ \E i, j \in 1..Len(last.reranked) :
          /\ i < j
          /\ last.reranked[i].boosted_score = last.reranked[j].boosted_score

\* The question's lower-cased tokens that are no stop words and occur in the
\* lower-cased text of a candidate
MatchedKeywords(question, text) ==
    LET tokens == Split(Lower(question))
    IN  {w \in {tokens[i] : i \in 1..Len(tokens)} :
            w \notin stop_words /\ IsSubstring(w, Lower(text))}

\* C40: every candidate that survives the deduplication has boosted_score =
\* raw score x (1 + min(matchCount x 0.03, 0.15)), matchCount being the number
\* of the question's lower-cased non-stop-word tokens found in its text; so
\* raw <= boosted_score <= 1.15 x raw, and boosted_score = raw without a match.
\* (Scores in thousandths, boosted scores in 1/100000.)
C40_BoostFormula ==
    last.op = "rerank" =>
        LET sorted == SortedOf(last)
        IN  \A c \in {sorted[k] : k \in 1..Len(sorted)}
                     \cup {last.reranked[i] : i \in 1..Len(last.reranked)} :
                LET matchCount == Cardinality(MatchedKeywords(last.question, c.payload.text))
                IN  /\ c.boosted_score = c.score * (100 + Min2(matchCount * 3, 15))
                    /\ c.score * 100 <= c.boosted_score
                    /\ c.boosted_score <= c.score * 115
                    /\ matchCount = 0 => c.boosted_score = c.score * 100

\* C40 witness: the re-ranked list holds a candidate without a match and one
\* whose six matches are capped at 15 percent
C40_Witness ==
    /\ last.op = "rerank"
    /\ \E i \in 1..Len(last.reranked) :
          /\ Cardinality(MatchedKeywords(last.question, last.reranked[i].payload.text)) = 6
          /\ last.reranked[i].boosted_score = last.reranked[i].score * 115
    /\ \E i \in 1..Len(last.reranked) :
          /\ MatchedKeywords(last.question, last.reranked[i].payload.text) = {}
          /\ last.reranked[i].boosted_score = last.reranked[i].score * 100

====
